---- MODULE Spec2Model ----
(***************************************************************************)
(* A model of holofuel.model.trading: the single-security market (order    *)
(* book, self-trade check at entry, matching loop) of exchgs.py and the    *)
(* agent ledger of actors.py.  Prices are integers (ticks); the market     *)
(* price (None / NaN) is the value NoPrice.                                *)
(***************************************************************************)
EXTENDS Integers, Sequences, FiniteSets

\* ---------------------------------------------------------------- bounds
\* enter is called while open orders + executed trades < MaxOrders
MaxOrders == 3
\* an order is entered between two yields while fewer than MaxEntered were
MaxEntered == 1
\* issue is called while the reserves hold less than MaxReserve units
MaxReserve == 8

Agents  == {"A", "B"}    \* the agents trading on the market
Limits  == {1, 2}        \* limit prices, in ticks
Times   == {1, 2}        \* the times orders are entered with
Amounts == {1, 2}        \* order quantities
ExecTimes == {3}         \* execute_all's now: the tick ends after its orders

\* ------------------------------------------------------- model/__init__.py
NoPrice == -1            \* None / NaN: a market-price order

non_value(number) == number = NoPrice

\* math.inf: above every price of the model
inf == 1000000

nan_first(number) == IF non_value(number) THEN -inf ELSE number

nan_last(number) == IF non_value(number) THEN inf ELSE number

\* ------------------------------------------------------------- exchgs.py
\* trade_t without the security and currency names: the model has one
\* market, of one security, in one currency.
trade_t(price, time, amount, agent) ==
    [price |-> price, time |-> time, amount |-> amount, agent |-> agent]

Prices == Limits \cup {NoPrice}

\* The orders a caller can pass to enter: buys have amount > 0, sells < 0.
Orders ==
    { trade_t(p, t, q, a) : p \in Prices, t \in Times,
                            q \in Amounts \cup {-n : n \in Amounts},
                            a \in Agents }

\* A slip: the sell book keyed with the buy book's price helper.
sell_book_key_last(order) == <<nan_last(order.price), -order.time>>

sell_book_key(order) == <<nan_first(order.price), -order.time>>

\* A slip: the buy book keyed with the sell book's price helper.
buy_book_key_first(order) == <<nan_first(order.price), order.time>>

buy_book_key(order) == <<nan_last(order.price), order.time>>

\* Python's comparison of two 2-tuples.
TupleLE(k1, k2) == k1[1] < k2[1] \/ (k1[1] = k2[1] /\ k1[2] <= k2[2])

book_key(side, order) ==
    IF side = "buy" THEN buy_book_key(order) ELSE sell_book_key(order)

\* One step of a stable insertion sort: x goes after every element whose key
\* is <= its own.
RECURSIVE InsertSorted(_, _, _)
InsertSorted(side, s, x) ==
    IF s = <<>> THEN <<x>>
    ELSE IF TupleLE(book_key(side, s[Len(s)]), book_key(side, x))
         THEN Append(s, x)
         ELSE Append(InsertSorted(side, SubSeq(s, 1, Len(s) - 1), x), s[Len(s)])

\* list.sort( key=... ): a stable sort of the whole list.
RECURSIVE SortBook(_, _)
SortBook(side, s) ==
    IF s = <<>> THEN <<>>
    ELSE InsertSorted(side, SortBook(side, SubSeq(s, 1, Len(s) - 1)), s[Len(s)])

VARIABLES
    buying,        \* market.buying: the buy book
    selling,       \* market.selling: the sell book (amounts negative)
    last,          \* market.last: <<>> for None, else <<the last buy trade>>
    transaction,   \* market.transaction
    agents,        \* agent objects: currency, trades, assets, balances
    pc,            \* "idle", or "exec" while execute_all is running
    now,           \* execute_all's now
    trades,        \* execute_all's list of the pairs yielded so far
    matched,       \* the book orders <<buy, sell>> consumed by the last yield
    reserves,      \* reserve.reserves: the dict's <<price, amount>> items in order
    volume_call,   \* the agent.volume call on the present trades: <<>> for
                   \* none, or its arguments and result
    gate,          \* agent objects' start, quanta, now, dt and run's last result
    world,         \* the world object: start, duration, quanta, now, ...
    markets,       \* exchange.markets: security name -> that market's books
    eng,           \* the engine's position in run / cycle
    account,       \* the ReserveAccount object: order book, reserves, price
    began          \* the counts execute_all's caller took when it called

\* The objects around the market: untouched by the market's own operations.
simulation == <<gate, world, markets, eng, account, began>>

vars == <<buying, selling, last, transaction, agents, pc, now, trades, matched,
          reserves, volume_call, simulation>>

\* agent.__init__: no currency yet, no trades, no assets, no balances.  An
\* absent assets / balances entry reads as 0.
agent_init == [currency |-> "", trades |-> <<>>, assets |-> 0, balances |-> 0]

\* agent.sells_to / agent.buys_from: the base agent deals with anyone.
sells_to(self, another) == TRUE

\* The instances of host, and of the reserve that overrides buys_from to
\* isinstance( another, host ).
Hosts == {"H"}

HostsOnly == {"RH"}

buys_from(self, another) == self \in HostsOnly => another \in Hosts

agents_compatible(buyer, seller) ==
    sells_to(seller, buyer) /\ buys_from(buyer, seller)

\* Python indexing: buying[bid] for bid < 0, selling[ask] for ask >= 0.
BuyAt(bid) == buying[Len(buying) + bid + 1]

SellAt(ask) == selling[ask + 1]

\* A slip: close leaves the book as it is.
close_nothing(book, agent) == book

\* market.close: the books without the agent's orders.
close(book, agent) == SelectSeq(book, LAMBDA order : order.agent # agent)

\* The for loop of buy_matches from position i of the sell book (1-based):
\* <<s>> for the sell order returned, <<>> for None.
RECURSIVE buy_matches_from(_, _, _)
buy_matches_from(book, order, i) ==
    IF i > Len(book) THEN <<>>
    ELSE LET s == book[i] IN
         IF /\ agents_compatible(order.agent, s.agent)
            /\ s.agent = order.agent
            /\ (non_value(s.price) \/ non_value(order.price) \/ s.price <= order.price)
         THEN <<s>>
         ELSE IF ~non_value(s.price) /\ ~non_value(order.price) /\ s.price > order.price
              THEN <<>>
              ELSE buy_matches_from(book, order, i + 1)

buy_matches(book, order) == buy_matches_from(book, order, 1)

\* The for loop of sell_matches from position i of the buy book.
RECURSIVE sell_matches_from(_, _, _)
sell_matches_from(book, order, i) ==
    IF i > Len(book) THEN <<>>
    ELSE LET b == book[i] IN
         IF /\ agents_compatible(b.agent, order.agent)
            /\ b.agent = order.agent
            /\ (non_value(b.price) \/ non_value(order.price) \/ b.price >= order.price)
         THEN <<b>>
         ELSE IF ~non_value(b.price) /\ ~non_value(order.price) /\ b.price < order.price
              THEN <<>>
              ELSE sell_matches_from(book, order, i + 1)

sell_matches(book, order) == sell_matches_from(book, order, 1)

\* The books enter( order, update ) works on after its optional close.
BuyingFor(order, update) == IF update THEN close(buying, order.agent) ELSE buying

SellingFor(order, update) == IF update THEN close(selling, order.agent) ELSE selling

\* enter raises: the self-trade check of an update-less enter found a match.
enter_raises(order, update) ==
    /\ ~update
    /\ IF order.amount >= 0
       THEN buy_matches(selling, order) # <<>>
       ELSE sell_matches(buying, order) # <<>>

\* A slip: the order is appended and the book is not sorted again.
buying_appended(order, update) ==
    IF order.amount >= 0
    THEN Append(BuyingFor(order, update), order)
    ELSE BuyingFor(order, update)

buying_entered(order, update) ==
    IF order.amount >= 0
    THEN SortBook("buy", Append(BuyingFor(order, update), order))
    ELSE BuyingFor(order, update)

selling_entered(order, update) ==
    IF order.amount >= 0
    THEN SellingFor(order, update)
    ELSE SortBook("sell", Append(SellingFor(order, update), order))

Init ==
    /\ buying = <<>>
    /\ selling = <<>>
    /\ last = <<>>
    /\ transaction = 0
    /\ agents = [a \in Agents |-> agent_init]
    /\ pc = "idle"
    /\ now = 0
    /\ trades = <<>>
    /\ matched = <<>>
    /\ reserves = <<>>
    /\ volume_call = <<>>
    /\ gate = <<>> /\ world = <<>> /\ markets = <<>> /\ eng = <<>>
    /\ account = <<>> /\ began = <<>>

\* market.enter( order, update ), called between executions.
enter(order, update) ==
    /\ pc = "idle"
    /\ IF enter_raises(order, update)
       THEN UNCHANGED <<buying, selling>>
       ELSE /\ buying' = buying_entered(order, update)
            /\ selling' = selling_entered(order, update)
    /\ UNCHANGED <<last, transaction, agents, pc, now, trades, matched, reserves, volume_call, simulation>>

\* A caller enters an order, while open orders + executed trades < MaxOrders.
Enter(order, update) ==
    /\ Len(buying) + Len(selling) + transaction < MaxOrders
    /\ enter(order, update)

\* market.close( agent )
Close(agent) ==
    /\ pc = "idle"
    /\ buying' = close(buying, agent)
    /\ selling' = close(selling, agent)
    /\ UNCHANGED <<last, transaction, agents, pc, now, trades, matched, reserves, volume_call, simulation>>

\* A slip: < for <=, which leaves an ask at the price of the bid untraded.
trade_possible_below(bid, ask) ==
    /\ bid < 0
    /\ ask >= 0
    /\ bid >= -Len(buying)
    /\ ask < Len(selling)
    /\ \/ non_value(selling[ask + 1].price)
       \/ non_value(buying[Len(buying) + bid + 1].price)
       \/ selling[ask + 1].price < buying[Len(buying) + bid + 1].price

\* market.trade_possible( bid, ask )
trade_possible(bid, ask) ==
    /\ bid < 0
    /\ ask >= 0
    /\ bid >= -Len(buying)
    /\ ask < Len(selling)
    /\ \/ non_value(SellAt(ask).price)
       \/ non_value(BuyAt(bid).price)
       \/ SellAt(ask).price <= BuyAt(bid).price

\* A slip: execute hands the top of the books to execute_possible as it is.
seek_top(bidnow, asknow) == <<bidnow, asknow>>

\* The inner while loop of execute: step bid down and ask up from
\* <<bidnow, asknow>> to the first possible trade between compatible agents.
RECURSIVE seek(_, _)
seek(bidnow, asknow) ==
    IF /\ trade_possible(bidnow, asknow)
       /\ ~agents_compatible(BuyAt(bidnow).agent, SellAt(asknow).agent)
    THEN IF bidnow + asknow = 0
         THEN seek(bidnow - 1, asknow)
         ELSE seek(bidnow, asknow + 1)
    ELSE <<bidnow, asknow>>

\* reversed( book )
reversed(book) == [i \in 1..Len(book) |-> book[Len(book) + 1 - i]]

\* for order in search: the price of the first limit order, else NoPrice.
RECURSIVE first_limit_from(_, _)
first_limit_from(search, i) ==
    IF i > Len(search) THEN NoPrice
    ELSE IF ~non_value(search[i].price) THEN search[i].price
         ELSE first_limit_from(search, i + 1)

\* A slip: <= for <, which hands a tie in time to the buyer.
buyer_first_or_tie(b, s) == b.time <= s.time

\* buying[bid].time < selling[ask].time: the buyer placed his order first.
buyer_first(b, s) == b.time < s.time

\* A slip: the trade is priced a tick above the limit of the later order.
spread_price_above(b, s) ==
    LET price == IF buyer_first(b, s) THEN s.price ELSE b.price
    IN  IF non_value(price) THEN price ELSE price + 1

\* The limit price of the order placed later: the spread goes to the
\* earlier order.
spread_price(b, s) == IF buyer_first(b, s) THEN s.price ELSE b.price

\* A slip: the fall-back reads the same order again.
other_price_same(b, s) == IF buyer_first(b, s) THEN s.price ELSE b.price

\* The price taken when spread_price is the market price: the limit price
\* of the order placed earlier.
other_price(b, s) == IF buyer_first(b, s) THEN b.price ELSE s.price

\* The book searched when both orders are market-price orders.
search_book(b, s) == IF buyer_first(b, s) THEN selling ELSE reversed(buying)

\* The price execute_possible settles on for buying[bid] and selling[ask]:
\* NoPrice when it breaks out of its loop without a trade.
trade_price(bid, ask) ==
    LET b == BuyAt(bid)
        s == SellAt(ask)
        price1 == spread_price(b, s)
        price2 == IF non_value(price1) THEN other_price(b, s) ELSE price1
        price3 == IF non_value(price2)
                  THEN first_limit_from(search_book(b, s), 1)
                  ELSE price2
    IN  IF non_value(price3)
        THEN (IF last = <<>> THEN NoPrice ELSE last[1].price)
        ELSE price3

Min(x, y) == IF x <= y THEN x ELSE y

trade_amount(bid, ask) == Min(BuyAt(bid).amount, -SellAt(ask).amount)

\* A slip: the order filled is left in its book.
Delete_none(book, i) == book

\* del book[i] (1-based)
Delete(book, i) == SubSeq(book, 1, i - 1) \o SubSeq(book, i + 1, Len(book))

\* A slip: the order is deleted whether it is filled or not.
consume_whole(book, i, filled, delta) == Delete(book, i)

\* The book entry i after a trade of amount: deleted when filled, else left
\* in place with its amount reduced (delta is -amount for a buy, +amount
\* for a sell).
consume(book, i, filled, delta) ==
    IF filled
    THEN Delete(book, i)
    ELSE [book EXCEPT ![i] = trade_t(@.price, @.time, @.amount + delta, @.agent)]

\* A slip: the balance credited where it is debited.
record_credit(ags, order) ==
    [ags EXCEPT ![order.agent] =
        [currency |-> IF @.currency = "" THEN "USD" ELSE @.currency,
         trades   |-> Append(@.trades, order),
         assets   |-> @.assets + order.amount,
         balances |-> @.balances + (order.amount * order.price)]]

\* agent.record( order )
record(ags, order) ==
    [ags EXCEPT ![order.agent] =
        [currency |-> IF @.currency = "" THEN "USD" ELSE @.currency,
         trades   |-> Append(@.trades, order),
         assets   |-> @.assets + order.amount,
         balances |-> @.balances + (-order.amount * order.price)]]

\* dict operations on reserve.reserves, kept as the sequence of its
\* <<price, amount>> items in insertion order.
has_key(d, k) == \E i \in 1..Len(d) : d[i][1] = k

dict_get(d, k) == d[CHOOSE i \in 1..Len(d) : d[i][1] = k][2]

setdefault(d, k, v) == IF has_key(d, k) THEN d ELSE Append(d, <<k, v>>)

dict_add(d, k, x) == [i \in 1..Len(d) |-> IF d[i][1] = k THEN <<k, d[i][2] + x>> ELSE d[i]]

dict_pop(d, k) == SelectSeq(d, LAMBDA item : item[1] # k)

\* The instances of reserve and of its subclasses: the plain reserve, the
\* issuing reserve and the reserve that buys from hosts only.
ReserveClass == {"R", "I", "RH"}

is_reserve(agent) == agent \in ReserveClass

\* A slip: the tranche grows by the amount bought.
reserve_record_add(res, order) ==
    LET d == dict_add(setdefault(res, order.price, 0), order.price, order.amount)
    IN  IF dict_get(d, order.price) = 0 THEN dict_pop(d, order.price) ELSE d

\* reserve.record( order ), after agent.record: the tranche at the order's
\* price shrinks by its amount, and is popped when it reaches 0.
reserve_record(res, order) ==
    LET d == dict_add(setdefault(res, order.price, 0), order.price, -order.amount)
    IN  IF dict_get(d, order.price) = 0 THEN dict_pop(d, order.price) ELSE d

\* order.agent.record( order ) as it leaves the reserves: reserve.record for
\* a reserve, agent.record (which has no reserves) for any other agent.
reserves_recorded(res, order) ==
    IF is_reserve(order.agent) THEN reserve_record(res, order) ELSE res

\* A slip: last keeps the sell record of the pair.
last_sell(buy, sell) == <<sell>>

\* buy = self.last = trade_t( ... ): last is the buy record of the pair.
last_buy(buy, sell) == <<buy>>

\* The indices execute hands to execute_possible.
bid_now == seek(-1, 0)[1]

ask_now == seek(-1, 0)[2]

\* execute has one more trade to yield.
can_yield ==
    /\ trade_possible(-1, 0)
    /\ trade_possible(bid_now, ask_now)
    /\ ~non_value(trade_price(bid_now, ask_now))

\* market.execute_all( now ) begins: trades = []
ExecuteAllBegin(t) ==
    /\ pc = "idle"
    /\ pc' = "exec"
    /\ now' = t
    /\ trades' = <<>>
    /\ matched' = <<>>
    /\ UNCHANGED <<buying, selling, last, transaction, agents, reserves, volume_call, simulation>>

\* One pass of execute_all's for loop: execute yields one trade pair (one
\* pass of execute_possible), which is recorded with both agents.
ExecuteYield ==
    /\ pc = "exec"
    /\ can_yield
    /\ LET bid    == bid_now
           ask    == ask_now
           b      == BuyAt(bid)
           s      == SellAt(ask)
           amount == trade_amount(bid, ask)
           price  == trade_price(bid, ask)
           buy    == trade_t(price, now, amount, b.agent)
           sell   == trade_t(price, now, -amount, s.agent)
       IN  /\ transaction' = transaction + 1
           /\ last' = last_buy(buy, sell)
           /\ buying' = consume(buying, Len(buying) + bid + 1, amount = b.amount, -amount)
           /\ selling' = consume(selling, ask + 1, amount = -s.amount, amount)
           /\ agents' = record(record(agents, buy), sell)
           /\ trades' = Append(trades, <<buy, sell>>)
           /\ matched' = <<b, s>>
           /\ reserves' = reserves_recorded(reserves_recorded(reserves, buy), sell)
    /\ UNCHANGED <<pc, now, volume_call, simulation>>

\* execute is exhausted: execute_all returns its trades to the caller.
ExecuteAllReturn ==
    /\ pc = "exec"
    /\ ~can_yield
    /\ pc' = "idle"
    /\ now' = 0
    /\ trades' = <<>>
    /\ matched' = <<>>
    /\ UNCHANGED <<buying, selling, last, transaction, agents, reserves, volume_call, simulation>>

Next ==
    \/ \E order \in Orders, update \in BOOLEAN : Enter(order, update)
    \/ \E agent \in Agents : Close(agent)
    \/ \E t \in ExecTimes : ExecuteAllBegin(t)
    \/ ExecuteYield
    \/ ExecuteAllReturn

Spec == Init /\ [][Next]_vars

\* --------------------------------------------- every enter with update=True
\* The callers that always replace: actor.run enters with update=True only.
NextUpdate ==
    \/ \E order \in Orders : Enter(order, TRUE)
    \/ \E agent \in Agents : Close(agent)
    \/ \E t \in ExecTimes : ExecuteAllBegin(t)
    \/ ExecuteYield
    \/ ExecuteAllReturn

SpecUpdate == Init /\ [][NextUpdate]_vars

\* ------------------------------------------------------------- the reserve
\* A reserve is a market and the agent "R" that makes it; "A" trades on it.
ReserveAgents == {"R", "A"}

\* The reserve's now at construction: the earliest of the order times.
ReserveStart == CHOOSE t \in Times : \A u \in Times : t <= u

TranchePrices == {1, 3}          \* the prices of the reserves handed to it
TrancheAmounts == {1, 2}
OutsidePrices == {NoPrice, 1, 2, 3}
OutsideAmounts == {1}

\* The reserves a reserve is constructed with: up to two tranches.
InitialReserves ==
    {<<>>}
    \cup {<<<<p, q>>>> : p \in TranchePrices, q \in TrancheAmounts}
    \cup {d \in {<<<<p1, q1>>, <<p2, q2>>>> :
                    p1 \in TranchePrices, p2 \in TranchePrices,
                    q1 \in TrancheAmounts, q2 \in TrancheAmounts} :
            d[1][1] # d[2][1]}

\* The orders of the outside agents.
OutsideOrders(outsiders) ==
    {trade_t(price, time, amount, agent) :
        price \in OutsidePrices, time \in Times,
        amount \in OutsideAmounts \cup {-q : q \in OutsideAmounts},
        agent \in outsiders}

\* The reserve of this market: the market and its market maker are one object.
self == CHOOSE agent \in ReserveClass : agent \in DOMAIN agents

\* enter( order ) without update on the books b, as one step of a run: the
\* self-trade check, then append and sort; raised when the check raises.
entered(b, order) ==
    IF order.amount >= 0
    THEN IF buy_matches(b.selling, order) # <<>>
         THEN [b EXCEPT !.raised = TRUE]
         ELSE [b EXCEPT !.buying = SortBook("buy", Append(b.buying, order))]
    ELSE IF sell_matches(b.buying, order) # <<>>
         THEN [b EXCEPT !.raised = TRUE]
         ELSE [b EXCEPT !.selling = SortBook("sell", Append(b.selling, order))]

\* for price,amount in self.reserves.items(): self.buy( self, amount, price, now )
\* from item i on; the exception of an enter ends the loop.
RECURSIVE buy_tranches(_, _, _, _, _)
buy_tranches(b, items, i, agent, t) ==
    IF i > Len(items) \/ b.raised THEN b
    ELSE buy_tranches(entered(b, trade_t(items[i][1], t, items[i][2], agent)),
                      items, i + 1, agent, t)

\* reserve.run( now ): close the reserve's orders, then one buy per tranche.
reserve_run(items, agent, t) ==
    buy_tranches([buying  |-> close(buying, agent),
                  selling |-> close(selling, agent),
                  raised  |-> FALSE], items, 1, agent, t)

\* reserve.__init__: the reserves are kept and run( now=self.now ) posts them.
ReserveInit ==
    /\ \E items \in InitialReserves :
        /\ reserves = items
        /\ buying = SortBook("buy", [i \in 1..Len(items) |->
                        trade_t(items[i][1], ReserveStart, items[i][2], "R")])
    /\ selling = <<>>
    /\ last = <<>>
    /\ transaction = 0
    /\ agents = [a \in ReserveAgents |-> agent_init]
    /\ pc = "idle"
    /\ now = 0
    /\ trades = <<>>
    /\ matched = <<>>
    /\ volume_call = <<>>
    /\ gate = <<>> /\ world = <<>> /\ markets = <<>> /\ eng = <<>>
    /\ account = <<>> /\ began = <<>>

\* The open orders of the outside agents.
outside_orders == SelectSeq(buying \o selling, LAMBDA order : ~is_reserve(order.agent))

\* An outside agent enters an order, while outside orders + executed trades
\* < MaxOrders.
OutsideEnter(order, update) ==
    /\ Len(outside_orders) + transaction < MaxOrders
    /\ enter(order, update)

\* execute_all( now ) begins on the reserve, while executed trades < MaxOrders.
ReserveExecuteAllBegin(t) ==
    /\ transaction < MaxOrders
    /\ ExecuteAllBegin(t)

\* The books and pc after self.run( now=t ).
Ran(b) ==
    /\ buying' = b.buying
    /\ selling' = b.selling
    /\ pc' = IF b.raised THEN "raised" ELSE "idle"

\* reserve.execute is exhausted: it rebuilds the reserve's orders with
\* self.run() at the clock's time, and execute_all returns; an exception of
\* run leaves execute_all.
ReserveExecuteAllReturn(t) ==
    /\ pc = "exec"
    /\ ~can_yield
    /\ Ran(reserve_run(reserves, self, t))
    /\ now' = 0
    /\ trades' = <<>>
    /\ matched' = <<>>
    /\ UNCHANGED <<last, transaction, agents, reserves, volume_call, simulation>>

\* reserve.run( now=t ) called between executions.
ReserveRun(t) ==
    /\ pc = "idle"
    /\ Ran(reserve_run(reserves, self, t))
    /\ UNCHANGED <<last, transaction, agents, now, trades, matched, reserves, volume_call, simulation>>

NextReserve ==
    \/ \E order \in OutsideOrders({"A"}), update \in BOOLEAN : OutsideEnter(order, update)
    \/ Close("A")
    \/ \E t \in ExecTimes : ReserveExecuteAllBegin(t)
    \/ ExecuteYield
    \/ \E t \in ExecTimes : ReserveExecuteAllReturn(t)
    \/ \E t \in ExecTimes : ReserveRun(t)

SpecReserve == ReserveInit /\ [][NextReserve]_vars

\* -------------------------------------------------- the reserve for hosts
\* test_reserve_issuing_selective: the reserve "RH" buys from hosts only; the
\* host "H" and the actor "N", who is no host, trade on it.
SelectiveAgents == {"RH", "H", "N"}

SelectiveReserves == {<<<<2, 1>>>>, <<<<2, 2>>>>, <<<<1, 1>>, <<2, 1>>>>}

SelectiveOrders ==
    {trade_t(price, ReserveStart, amount, agent) :
        price \in Prices, amount \in {1, -1}, agent \in {"H", "N"}}

SelectiveInit ==
    /\ \E items \in SelectiveReserves :
        /\ reserves = items
        /\ buying = SortBook("buy", [i \in 1..Len(items) |->
                        trade_t(items[i][1], ReserveStart, items[i][2], "RH")])
    /\ selling = <<>>
    /\ last = <<>>
    /\ transaction = 0
    /\ agents = [a \in SelectiveAgents |-> agent_init]
    /\ pc = "idle"
    /\ now = 0
    /\ trades = <<>>
    /\ matched = <<>>
    /\ volume_call = <<>>
    /\ gate = <<>> /\ world = <<>> /\ markets = <<>> /\ eng = <<>>
    /\ account = <<>> /\ began = <<>>

NextSelective ==
    \/ \E order \in SelectiveOrders, update \in BOOLEAN : OutsideEnter(order, update)
    \/ \E agent \in {"H", "N"} : Close(agent)
    \/ \E t \in ExecTimes : ReserveExecuteAllBegin(t)
    \/ ExecuteYield
    \/ \E t \in ExecTimes : ReserveExecuteAllReturn(t)
    \/ \E t \in ExecTimes : ReserveRun(t)

SpecSelective == SelectiveInit /\ [][NextSelective]_vars

\* ------------------------------------------- the reserve's test: retirement
\* test_reserve_simple, prices in units of 0.0001: a reserve created with one
\* tranche, which A sells into; then A buys.  The test's own numbers are the
\* tranche <<7, 100>> and the buy of 1000 at 10.
RetireTranches == {<<<<p, q>>>> : p \in {7, 8}, q \in {100, 200}}

IssueOrders == {trade_t(p, t, q, "A") : p \in {10, 11}, t \in Times, q \in {500, 1000}}

RetireInit ==
    /\ \E items \in RetireTranches :
        /\ reserves = items
        /\ buying = <<trade_t(items[1][1], ReserveStart, items[1][2], "R")>>
    /\ selling = <<>>
    /\ last = <<>>
    /\ transaction = 0
    /\ agents = [a \in ReserveAgents |-> agent_init]
    /\ pc = "idle"
    /\ now = 0
    /\ trades = <<>>
    /\ matched = <<>>
    /\ volume_call = <<>>
    /\ gate = <<>> /\ world = <<>> /\ markets = <<>> /\ eng = <<>>
    /\ account = <<>> /\ began = <<>>

\* Holofuel_USD.sell( a1, 100, .0007 ): A sells the tranche's quantity at the
\* tranche's price, once.
RetireSell(t, update) ==
    /\ transaction = 0
    /\ outside_orders = <<>>
    /\ reserves # <<>>
    /\ enter(trade_t(reserves[1][1], t, -reserves[1][2], "A"), update)

\* Holofuel_USD.buy( a1, 1000, .001 ): after the retirement A buys, once.
IssueBuy(order, update) ==
    /\ transaction = 1
    /\ outside_orders = <<>>
    /\ enter(order, update)

NextRetire ==
    \/ \E t \in Times, update \in BOOLEAN : RetireSell(t, update)
    \/ \E order \in IssueOrders, update \in BOOLEAN : IssueBuy(order, update)
    \/ \E t \in ExecTimes : ReserveExecuteAllBegin(t)
    \/ ExecuteYield
    \/ \E t \in ExecTimes : ReserveExecuteAllReturn(t)

SpecRetire == RetireInit /\ [][NextRetire]_vars

\* ------------------------------------------------------------ agent.volume
MaxTrades == 2                   \* the length of the trade log

NoSecurity == ""                 \* security=None
NoPeriod == 0                    \* period=None

Name == "HoloFuel"               \* market.name: the security of its trades

Securities == {Name, "Wheat"}
VolumeTimes == {1, 2, 3}
VolumePeriods == {NoPeriod, 1, 2}

\* order.security: the records of the market model are all of one security.
security_of(order) == IF "security" \in DOMAIN order THEN order.security ELSE Name

\* for order in reversed( self.trades ), from entry i down: break at the
\* first trade before now - period; count a trade when `security and
\* order.security == security`.
RECURSIVE volume_scan(_, _, _, _, _)
volume_scan(log, i, security, period, t) ==
    IF i = 0 THEN <<0, 0>>
    ELSE IF period # NoPeriod /\ log[i].time < t - period THEN <<0, 0>>
         ELSE LET rest == volume_scan(log, i - 1, security, period, t) IN
              IF security # NoSecurity /\ security_of(log[i]) = security
              THEN IF log[i].amount < 0
                   THEN <<rest[1], rest[2] - log[i].amount>>
                   ELSE <<rest[1] + log[i].amount, rest[2]>>
              ELSE rest

\* agent.volume( security, period, now ) over the agent's trades: <<buy, sell>>
volume(log, security, period, t) == volume_scan(log, Len(log), security, period, t)

\* The trades an agent records: of either security, at price 1.
VolumeOrders ==
    {[security |-> s, price |-> 1, time |-> t, amount |-> q, agent |-> "A"] :
        s \in Securities, t \in VolumeTimes, q \in {1, 2, -1, -2}}

VolumeInit ==
    /\ buying = <<>>
    /\ selling = <<>>
    /\ last = <<>>
    /\ transaction = 0
    /\ agents = [a \in {"A"} |-> agent_init]
    /\ pc = "idle"
    /\ now = 0
    /\ trades = <<>>
    /\ matched = <<>>
    /\ reserves = <<>>
    /\ volume_call = <<>>
    /\ gate = <<>> /\ world = <<>> /\ markets = <<>> /\ eng = <<>>
    /\ account = <<>> /\ began = <<>>

\* The time of the agent's latest trade.
latest(log) == IF log = <<>> THEN 0 ELSE log[Len(log)].time

\* agent.record( order ): the trades are recorded as they execute, so in the
\* order of their times; while the log is shorter than MaxTrades.  The
\* result of an earlier volume call is of the log as it was, and is dropped.
VolumeRecord(order) ==
    /\ Len(agents[order.agent].trades) < MaxTrades
    /\ latest(agents[order.agent].trades) <= order.time
    /\ agents' = record(agents, order)
    /\ volume_call' = <<>>
    /\ UNCHANGED <<buying, selling, last, transaction, pc, now, trades, matched,
                   reserves, simulation>>

\* agent.volume( security, period, now=t ) is called at a time t not before
\* the latest trade.
VolumeCall(agent, security, period, t) ==
    /\ latest(agents[agent].trades) <= t
    /\ volume_call' = [security |-> security, period |-> period, now |-> t,
                       result |-> volume(agents[agent].trades, security, period, t)]
    /\ UNCHANGED <<buying, selling, last, transaction, agents, pc, now, trades,
                   matched, reserves, simulation>>

NextVolume ==
    \/ \E order \in VolumeOrders : VolumeRecord(order)
    \/ \E security \in Securities \cup {NoSecurity}, period \in VolumePeriods,
          t \in VolumeTimes : VolumeCall("A", security, period, t)

SpecVolume == VolumeInit /\ [][NextVolume]_vars

\* ------------------------------------------------------ the issuing reserve
\* A reserve_issuing "I" constructed without reserves; "A" trades on it.
IssuingAgents == {"I", "A"}

supply_available == 2            \* the supply_available it is constructed with
supply_book_value == 2           \* the supply_book_value it is constructed with
supply_premium == 1              \* its default
supply_period == 3600            \* its default: 60 * 60

supply_price == supply_book_value * supply_premium

\* buy,sell = self.volume( period=self.supply_period, now=now ), and
\* supply_sold_period = sell - buy
supply_sold_period(log, t) ==
    LET v == volume(log, NoSecurity, supply_period, t) IN v[2] - v[1]

\* reserve_issuing.run( now=t ): reserve.run, then the sell of what is left
\* of supply_available, entered at the clock's time.
issuing_run(items, agent, t, clock) ==
    LET b == reserve_run(items, agent, t)
        sold == supply_sold_period(agents[agent].trades, t)
    IN  IF b.raised \/ ~(sold < supply_available) THEN b
        ELSE entered(b, trade_t(supply_price, clock, -(supply_available - sold), agent))

\* reserve_issuing.__init__: no reserves, and run( now=self.now ) offers the
\* whole of supply_available.
IssuingInit ==
    /\ reserves = <<>>
    /\ buying = <<>>
    /\ selling = <<trade_t(supply_price, ReserveStart, -supply_available, "I")>>
    /\ last = <<>>
    /\ transaction = 0
    /\ agents = [a \in IssuingAgents |-> agent_init]
    /\ pc = "idle"
    /\ now = 0
    /\ trades = <<>>
    /\ matched = <<>>
    /\ volume_call = <<>>
    /\ gate = <<>> /\ world = <<>> /\ markets = <<>> /\ eng = <<>>
    /\ account = <<>> /\ began = <<>>

\* reserve.execute is exhausted on the issuing reserve: self.run() at the
\* clock's time, and execute_all returns or run's exception leaves it.
IssuingExecuteAllReturn(t) ==
    /\ pc = "exec"
    /\ ~can_yield
    /\ Ran(issuing_run(reserves, self, t, t))
    /\ now' = 0
    /\ trades' = <<>>
    /\ matched' = <<>>
    /\ UNCHANGED <<last, transaction, agents, reserves, volume_call, simulation>>

\* reserve_issuing.run( now=t ) called between executions.
IssuingRun(t) ==
    /\ pc = "idle"
    /\ Ran(issuing_run(reserves, self, t, t))
    /\ UNCHANGED <<last, transaction, agents, now, trades, matched, reserves, volume_call, simulation>>

NextIssuing ==
    \/ \E order \in OutsideOrders({"A"}), update \in BOOLEAN : OutsideEnter(order, update)
    \/ Close("A")
    \/ \E t \in ExecTimes : ReserveExecuteAllBegin(t)
    \/ ExecuteYield
    \/ \E t \in ExecTimes : IssuingExecuteAllReturn(t)
    \/ \E t \in ExecTimes : IssuingRun(t)

SpecIssuing == IssuingInit /\ [][NextIssuing]_vars

\* --------------------------------------------- the class docstring's market
\* The wheat market of the market class's docstring, prices in cents: a buy
\* of B and the sells of E, D, A and C.
ExampleAgents == {"A", "B", "C", "D", "E"}

ExampleOrders ==
    { trade_t(405, 2,  500, "B"),
      trade_t(410, 5, -100, "E"),
      trade_t(401, 3, -200, "D"),
      trade_t(400, 1, -250, "A"),
      trade_t(400, 2, -200, "C") }

\* The orders open in the two books.
OpenOrders == {buying[i] : i \in 1..Len(buying)} \cup {selling[i] : i \in 1..Len(selling)}

ExampleInit ==
    /\ buying = <<>>
    /\ selling = <<>>
    /\ last = <<>>
    /\ transaction = 0
    /\ agents = [a \in ExampleAgents |-> agent_init]
    /\ pc = "idle"
    /\ now = 0
    /\ trades = <<>>
    /\ matched = <<>>
    /\ reserves = <<>>
    /\ volume_call = <<>>
    /\ gate = <<>> /\ world = <<>> /\ markets = <<>> /\ eng = <<>>
    /\ account = <<>> /\ began = <<>>

\* The example's orders are entered, each once and in any sequence, before
\* the first trade.
ExampleEnter(order, update) ==
    /\ transaction = 0
    /\ order \notin OpenOrders
    /\ enter(order, update)

ExampleNext ==
    \/ \E order \in ExampleOrders, update \in BOOLEAN : ExampleEnter(order, update)
    \/ \E t \in ExecTimes : ExecuteAllBegin(t)
    \/ ExecuteYield
    \/ ExecuteAllReturn

SpecExample == ExampleInit /\ [][ExampleNext]_vars

\* -------------------------------------------------------------- agent.run
GateAgents == {"A"}

Starts == {0, 2}

Quanta == {0, 2, 3}

GateTimes == 0 .. 6

\* agent.__init__: now None (<<>>), dt 0; start and quanta as given.  tick,
\* result and executed are the history of the calls of run: the time of the
\* latest call, what it returned, and the times of the latest two calls
\* that returned True.
gate_init(start, quanta) ==
    [start |-> start, quanta |-> quanta, now |-> <<>>, dt |-> 0,
     tick |-> <<>>, result |-> FALSE, executed |-> <<>>]

due_at_once(self_now, quanta, t) == TRUE

\* self.now is None or now - self.now >= self.quanta
due(self_now, quanta, t) == self_now = <<>> \/ t - self_now[1] >= quanta

\* The latest two of the times at which run returned True.
executed_at(executed, t) ==
    IF executed = <<>> THEN <<t>> ELSE <<executed[Len(executed)], t>>

\* agent.run( exch, now=t ) on the agent object g: the object afterwards.
\* self.now is assigned first, and self.dt is computed from the object as it
\* is then.
run(g, t) ==
    IF t >= g.start /\ due(g.now, g.quanta, t)
    THEN LET assigned == [g EXCEPT !.now = <<t>>]
         IN  [assigned EXCEPT
                 !.dt = t - (IF assigned.now = <<>> THEN assigned.start
                             ELSE assigned.now[1]),
                 !.tick = <<t>>, !.result = TRUE,
                 !.executed = executed_at(g.executed, t)]
    ELSE [g EXCEPT !.tick = <<t>>, !.result = FALSE]

GateInit ==
    /\ buying = <<>> /\ selling = <<>> /\ last = <<>> /\ transaction = 0
    /\ agents = <<>> /\ pc = "idle" /\ now = 0 /\ trades = <<>>
    /\ matched = <<>> /\ reserves = <<>> /\ volume_call = <<>>
    /\ gate \in [GateAgents -> {gate_init(start, quanta) :
                                    start \in Starts, quanta \in Quanta}]
    /\ world = <<>> /\ markets = <<>> /\ eng = <<>>
    /\ account = <<>> /\ began = <<>>

\* agent.run is called with a time not before the time of the call before.
AgentRun(agent, t) ==
    /\ gate[agent].tick # <<>> => gate[agent].tick[1] <= t
    /\ gate' = [gate EXCEPT ![agent] = run(gate[agent], t)]
    /\ UNCHANGED <<buying, selling, last, transaction, agents, pc, now, trades,
                   matched, reserves, volume_call, world, markets, eng, account, began>>

NextGate == \E agent \in GateAgents, t \in GateTimes : AgentRun(agent, t)

SpecGate == GateInit /\ [][NextGate]_vars

\* ---------------------------------------------------------------- exchange
Currencies == {"USD", "CAD"}

\* exchange.__init__( name ): currency from the name, or 'USD'.
exchange_currency == "USD"

ExchangeAgents == {"A", "B"}

ExchangePrices == {1, 2}

ExchangeTimes == {1}

\* trade_t( security, price, currency, time, amount, agent ): the order with
\* all its six fields.
security_trade_t(security, price, currency, time, amount, agent) ==
    [security |-> security, price |-> price, currency |-> currency,
     time |-> time, amount |-> amount, agent |-> agent]

\* The orders agents may hand to enter: of any security and any currency.
ExchangeOrders ==
    {security_trade_t(security, price, currency, time, amount, agent) :
        security \in Securities, price \in ExchangePrices,
        currency \in Currencies, time \in ExchangeTimes,
        amount \in {-1, 1}, agent \in ExchangeAgents}

\* market.__init__( 'Security/Currency', currency=Currency ).  raised marks a
\* call that ended in an exception.
market_init(name, currency) ==
    [name |-> name, currency |-> currency, buying |-> <<>>, selling |-> <<>>,
     raised |-> FALSE]

\* market.close( agent, security=security )
market_close(m, agent, security) ==
    IF security # m.name THEN [m EXCEPT !.raised = TRUE]
    ELSE [m EXCEPT !.buying = close(m.buying, agent),
                   !.selling = close(m.selling, agent)]

\* market.enter( order, update ) on the market object m.  An exception leaves
\* the market as it was when it was raised, which is as it was before the
\* call.
market_enter(m, order, update) ==
    LET closed  == IF update THEN market_close(m, order.agent, order.security)
                   ELSE m
        done    == IF closed.raised THEN closed
                   ELSE IF update
                        THEN IF order.amount >= 0
                             THEN [closed EXCEPT !.buying =
                                      SortBook("buy", Append(closed.buying, order))]
                             ELSE [closed EXCEPT !.selling =
                                      SortBook("sell", Append(closed.selling, order))]
                        ELSE entered(closed, order)
    IN  IF done.raised THEN m ELSE done

\* market.buy( agent, amount, price, now, update )
market_buy(m, agent, amount, price, t, update) ==
    market_enter(m, security_trade_t(m.name, price, m.currency, t, amount, agent),
                 update)

\* market.sell( agent, amount, price, now, update )
market_sell(m, agent, amount, price, t, update) ==
    market_enter(m, security_trade_t(m.name, price, m.currency, t, -amount, agent),
                 update)

\* if security not in self.markets:
\*     self.markets[security] = self.market_class( security/currency, currency )
with_market(mkts, security, currency) ==
    IF security \in DOMAIN mkts THEN mkts
    ELSE [sec \in DOMAIN mkts \cup {security} |->
             IF sec \in DOMAIN mkts THEN mkts[sec]
             ELSE market_init(security, currency)]

\* exchange.buy( security, agent, amount, price, now, update )
exchange_buy(mkts, security, agent, amount, price, t, update) ==
    LET with == with_market(mkts, security, exchange_currency)
    IN  [with EXCEPT ![security] = market_buy(@, agent, amount, price, t, update)]

\* exchange.sell( security, agent, amount, price, now, update ): calls the
\* market's buy.
exchange_sell(mkts, security, agent, amount, price, t, update) ==
    LET with == with_market(mkts, security, exchange_currency)
    IN  [with EXCEPT ![security] = market_buy(@, agent, amount, price, t, update)]

\* exchange.enter( order, update ): the currency is asserted only where the
\* market is created.
exchange_enter(mkts, order, update) ==
    IF order.security \notin DOMAIN mkts /\ order.currency # exchange_currency
    THEN mkts
    ELSE LET with == with_market(mkts, order.security, order.currency)
         IN  [with EXCEPT ![order.security] = market_enter(@, order, update)]

\* The number of open orders in all the markets.
RECURSIVE open_in(_, _)
open_in(mkts, securities) ==
    IF securities = {} THEN 0
    ELSE LET security == CHOOSE s \in securities : TRUE
         IN  Len(mkts[security].buying) + Len(mkts[security].selling)
                 + open_in(mkts, securities \ {security})

ExchangeInit ==
    /\ buying = <<>> /\ selling = <<>> /\ last = <<>> /\ transaction = 0
    /\ agents = <<>> /\ pc = "idle" /\ now = 0 /\ trades = <<>>
    /\ matched = <<>> /\ reserves = <<>> /\ volume_call = <<>>
    /\ gate = <<>> /\ world = <<>> /\ eng = <<>>
    /\ account = <<>> /\ began = <<>>
    /\ markets = <<>>

market_unchanged ==
    UNCHANGED <<buying, selling, last, transaction, agents, pc, now, trades,
                matched, reserves, volume_call, gate, world, eng, account, began>>

ExchangeBuy(security, agent, amount, price, t, update) ==
    /\ open_in(markets, DOMAIN markets) < MaxOrders
    /\ markets' = exchange_buy(markets, security, agent, amount, price, t, update)
    /\ market_unchanged

ExchangeSell(security, agent, amount, price, t, update) ==
    /\ open_in(markets, DOMAIN markets) < MaxOrders
    /\ markets' = exchange_sell(markets, security, agent, amount, price, t, update)
    /\ market_unchanged

ExchangeEnter(order, update) ==
    /\ open_in(markets, DOMAIN markets) < MaxOrders
    /\ markets' = exchange_enter(markets, order, update)
    /\ market_unchanged

\* market.enter on one of the exchange's markets.
MarketEnter(security, order, update) ==
    /\ security \in DOMAIN markets
    /\ open_in(markets, DOMAIN markets) < MaxOrders
    /\ markets' = [markets EXCEPT ![security] = market_enter(@, order, update)]
    /\ market_unchanged

\* exchange.close( agent, security )
ExchangeClose(agent, security) ==
    /\ markets' = [sec \in DOMAIN markets |->
                      IF sec # security THEN markets[sec]
                      ELSE [markets[sec] EXCEPT
                               !.buying = close(@, agent),
                               !.selling = close(@, agent)]]
    /\ market_unchanged

NextExchange ==
    \/ \E security \in Securities, agent \in ExchangeAgents,
          price \in ExchangePrices, t \in ExchangeTimes, update \in BOOLEAN :
            \/ ExchangeBuy(security, agent, 1, price, t, update)
            \/ ExchangeSell(security, agent, 1, price, t, update)
    \/ \E order \in ExchangeOrders, update \in BOOLEAN :
            \/ ExchangeEnter(order, update)
            \/ \E security \in Securities : MarketEnter(security, order, update)
    \/ \E agent \in ExchangeAgents, security \in Securities :
            ExchangeClose(agent, security)

SpecExchange == ExchangeInit /\ [][NextExchange]_vars

\* ------------------------------------------------------------------- world
\* world( duration, start, quanta ): the arguments tried.  <<>> is start=None.
WorldStarts == {<<>>, <<1>>, <<3>>}

Durations == 0 .. 6

WorldQuanta == {1, 2, 3}

\* world.__init__: self.start = start or 0, and reset().  yielded is the
\* history of the times periods() has yielded, at the place its generator
\* stands at: "loop" at the while, "yielded" in the yield, "completed" after
\* the loop.
world_init(duration, start, quanta) ==
    LET from == IF start = <<>> THEN 0 ELSE start[1]
    IN  [start |-> from, duration |-> duration, quanta |-> quanta, now |-> from,
         yielded |-> <<>>, at |-> "loop"]

done_after(w) == w.now > w.start + w.duration

\* world.done (the duration is never None here)
done(w) == w.now >= w.start + w.duration

\* world.advance
advance(w) == [w EXCEPT !.now = w.now + w.quanta]

WorldInit ==
    /\ buying = <<>> /\ selling = <<>> /\ last = <<>> /\ transaction = 0
    /\ agents = <<>> /\ pc = "idle" /\ now = 0 /\ trades = <<>>
    /\ matched = <<>> /\ reserves = <<>> /\ volume_call = <<>>
    /\ gate = <<>> /\ markets = <<>> /\ eng = <<>>
    /\ account = <<>> /\ began = <<>>
    /\ world \in {world_init(duration, start, quanta) : duration \in Durations,
                      start \in WorldStarts, quanta \in WorldQuanta}

world_only ==
    UNCHANGED <<buying, selling, last, transaction, agents, pc, now, trades,
                matched, reserves, volume_call, gate, markets, eng, account, began>>

\* periods(): while not self.done: yield self.now
PeriodsYield ==
    /\ world.at = "loop" /\ ~done(world)
    /\ world' = [world EXCEPT !.yielded = Append(@, world.now), !.at = "yielded"]
    /\ world_only

\* periods() is resumed: self.advance(), and back to the while.
PeriodsAdvance ==
    /\ world.at = "yielded"
    /\ world' = [advance(world) EXCEPT !.at = "loop"]
    /\ world_only

\* periods(): self.done at the while; the generator completes.
PeriodsComplete ==
    /\ world.at = "loop" /\ done(world)
    /\ world' = [world EXCEPT !.at = "completed"]
    /\ world_only

NextWorld == PeriodsYield \/ PeriodsAdvance \/ PeriodsComplete

SpecWorld == WorldInit /\ [][NextWorld]_vars

\* ---------------------------------------------------------- world_realtime
\* The depth at which a call is refused with a RecursionError.
recursion_limit == 3

\* The wall clock's step: every time of the realtime world is a multiple of
\* it, so that the scale setter's repeated divisions stay whole.
second == 4 ^ (recursion_limit + 1)

Scales == {1, 2, 4}

RealtimeDurations == {second, 2 * second, 3 * second}

\* world_realtime( duration, scale=scale ) made when the timer reads t:
\* start = timer(), now = start, _scale = scale.  raised tells that a call
\* ended in an exception.
world_realtime_init(duration, scale, t) ==
    [start |-> t, duration |-> duration, now |-> t, scale |-> scale,
     timer |-> t, raised |-> FALSE]

\* world_realtime.advance
realtime_advance(w) ==
    [w EXCEPT !.now = w.start + (w.timer - w.start) * w.scale]

\* The scale setter called with value, depth calls deep.
RECURSIVE scale_set(_, _, _)
scale_set(w, value, depth) ==
    IF depth >= recursion_limit THEN [w EXCEPT !.raised = TRUE]
    ELSE IF value # w.scale
         THEN LET duration == ((w.now - w.start) * w.scale) \div value
                  started  == IF duration # 0
                              THEN [w EXCEPT !.start = w.now - duration]
                              ELSE w
              IN  scale_set(started, value, depth + 1)      \* self.scale = value
         ELSE w

RealtimeInit ==
    /\ buying = <<>> /\ selling = <<>> /\ last = <<>> /\ transaction = 0
    /\ agents = <<>> /\ pc = "idle" /\ now = 0 /\ trades = <<>>
    /\ matched = <<>> /\ reserves = <<>> /\ volume_call = <<>>
    /\ gate = <<>> /\ markets = <<>> /\ eng = <<>>
    /\ account = <<>> /\ began = <<>>
    /\ world \in {world_realtime_init(duration, scale, t) :
                      duration \in RealtimeDurations, scale \in Scales,
                      t \in {0, second}}

\* The wall clock moves on, for as long as the world lasts.  An exception
\* ends the program.
TimerTick ==
    /\ ~world.raised
    /\ world.timer < world.start + world.duration
    /\ world' = [world EXCEPT !.timer = @ + second]
    /\ world_only

RealtimeAdvance ==
    /\ ~world.raised
    /\ world' = realtime_advance(world)
    /\ world_only

\* world.scale = value
ScaleSet(value) ==
    /\ ~world.raised
    /\ world' = scale_set(world, value, 0)
    /\ world_only

NextRealtime ==
    \/ TimerTick
    \/ RealtimeAdvance
    \/ \E value \in Scales : ScaleSet(value)

SpecRealtime == RealtimeInit /\ [][NextRealtime]_vars

\* ------------------------------------------------------------------ engine
\* engine( world, exch, agents ): the agents in the order of the list.
EngineAgents == <<"A", "B">>

EngineStarts == {0, 1}

EngineQuanta == {1, 2}

EngineDurations == {2, 3}

EnginePrices == {NoPrice, 1, 2}

EngineAmounts == {-1, 1, 2}

\* What exch is: an object of class market, or of class exchange.
ExchangeClasses == {"market", "exchange"}

\* The engine before run(): phase tells where run / cycle stand ("next" at
\* the for over world.periods(), "agents" in cycle's for over the agents,
\* "match" in and after execute_all, "done" after run, "raised" after an
\* exception), turn is the place in the list of agents, now is cycle's now,
\* and calls is the history of the calls cycle has made in this tick.
engine_init(class) ==
    [class |-> class, phase |-> "next", turn |-> 0, now |-> 0, calls |-> <<>>]

EngineInitOf(classes) ==
    /\ buying = <<>> /\ selling = <<>> /\ last = <<>> /\ transaction = 0
    /\ agents = [a \in {EngineAgents[i] : i \in 1..Len(EngineAgents)} |-> agent_init]
    /\ pc = "idle" /\ now = 0 /\ trades = <<>>
    /\ matched = <<>> /\ reserves = <<>> /\ volume_call = <<>>
    /\ gate \in [{EngineAgents[i] : i \in 1..Len(EngineAgents)} ->
                    {gate_init(start, quanta) :
                        start \in EngineStarts, quanta \in EngineQuanta}]
    /\ world \in {world_init(duration, <<>>, 1) : duration \in EngineDurations}
    /\ markets = <<>>
    /\ eng \in {engine_init(class) : class \in classes}
    /\ account = <<>> /\ began = <<>>

EngineInit == EngineInitOf({"market"})

agents_ran_one(e) == e.turn > 1

\* cycle's for over self.agents is exhausted.
agents_ran(e) == e.turn > Len(EngineAgents)

\* run's for asks world.periods() for the next time: the generator, resumed
\* after its yield, advances; it yields now, and cycle( now ) begins, or it
\* completes, and run returns.
EngineNext ==
    /\ eng.phase = "next" \/ (eng.phase = "match" /\ pc = "idle")
    /\ LET w == IF world.at = "yielded" THEN advance(world) ELSE world
       IN  IF done(w)
           THEN /\ world' = [w EXCEPT !.at = "completed"]
                /\ eng' = [eng EXCEPT !.phase = "done"]
           ELSE /\ world' = [w EXCEPT !.yielded = Append(@, w.now), !.at = "yielded"]
                /\ eng' = [eng EXCEPT !.phase = "agents", !.turn = 1,
                                      !.now = w.now, !.calls = <<>>]
    /\ UNCHANGED <<buying, selling, last, transaction, agents, pc, now, trades,
                   matched, reserves, volume_call, gate, markets, account, began>>

\* What an agent whose run is due does with exch: nothing, or
\* exch.enter( order, update=True ) with an order of its own at now.
Entered(agent, order) ==
    IF eng.class = "market"
    THEN /\ buying' = buying_entered(order, TRUE)
         /\ selling' = selling_entered(order, TRUE)
         /\ UNCHANGED markets
    ELSE /\ markets' = exchange_enter(markets,
                           security_trade_t(Name, order.price, exchange_currency,
                                            order.time, order.amount, agent),
                           TRUE)
         /\ UNCHANGED <<buying, selling>>

\* One pass of cycle's for: agent.run( exch=self.exchange, now=now ).
EngineAgentRun ==
    /\ eng.phase = "agents" /\ ~agents_ran(eng)
    /\ LET agent == EngineAgents[eng.turn]
           g     == run(gate[agent], eng.now)
       IN  /\ gate' = [gate EXCEPT ![agent] = g]
           /\ eng' = [eng EXCEPT !.turn = @ + 1, !.calls = Append(@, agent)]
           /\ \/ UNCHANGED <<buying, selling, markets>>
              \/ /\ g.result
                 /\ Len(buying) + Len(selling) + open_in(markets, DOMAIN markets)
                        + transaction < MaxOrders
                 /\ \E price \in EnginePrices, amount \in EngineAmounts :
                        Entered(agent, trade_t(price, eng.now, amount, agent))
    /\ UNCHANGED <<last, transaction, agents, pc, now, trades, matched, reserves,
                   volume_call, world, account, began>>

\* cycle: self.exchange.execute_all( now=now ) on a market begins.
EngineExecuteAll ==
    /\ eng.phase = "agents" /\ agents_ran(eng)
    /\ eng.class = "market"
    /\ pc = "idle"
    /\ pc' = "exec"
    /\ now' = eng.now
    /\ trades' = <<>>
    /\ matched' = <<>>
    /\ eng' = [eng EXCEPT !.phase = "match", !.calls = Append(@, "execute_all")]
    /\ UNCHANGED <<buying, selling, last, transaction, agents, reserves,
                   volume_call, gate, world, markets, account, began>>

\* cycle: self.exchange.execute_all on an exchange: the class has no such
\* attribute, and the AttributeError ends run.
EngineExecuteAllRaises ==
    /\ eng.phase = "agents" /\ agents_ran(eng)
    /\ eng.class = "exchange"
    /\ eng' = [eng EXCEPT !.phase = "raised"]
    /\ UNCHANGED <<buying, selling, last, transaction, agents, pc, now, trades,
                   matched, reserves, volume_call, gate, world, markets, account, began>>

NextEngine ==
    \/ EngineNext
    \/ EngineAgentRun
    \/ EngineExecuteAll
    \/ ExecuteYield
    \/ ExecuteAllReturn

SpecEngine == EngineInit /\ [][NextEngine]_vars

\* The engine on either class of exch.
EngineInitAny == EngineInitOf(ExchangeClasses)

NextEngineAny == NextEngine \/ EngineExecuteAllRaises

SpecEngineAny == EngineInitAny /\ [][NextEngineAny]_vars

\* ------------------------------------------------- the reserve and the clock
\* What timer() may read when reserve.execute calls self.run() without a
\* now: the wall clock is before, or after, the times of the simulation.
ClockTimes == {0, 4}

NextClock ==
    \/ \E order \in OutsideOrders({"A"}), update \in BOOLEAN : OutsideEnter(order, update)
    \/ Close("A")
    \/ \E t \in ExecTimes : ReserveExecuteAllBegin(t)
    \/ ExecuteYield
    \/ \E clock \in ClockTimes : ReserveExecuteAllReturn(clock)

SpecClock == ReserveInit /\ [][NextClock]_vars

\* ------------------------------------------- actors on the issuing reserve
\* need_t( 1, None, 'HoloFuel', cycle, amount ): the actors' one need, its
\* cycle in ticks of the world.
need == [priority |-> 1, security |-> Name, cycle |-> 3, amount |-> 2]

ActorQuanta == {2, 3}

\* The number of need cycles the world lasts.
Cycles == {1, 2}

\* actor.__init__: the agent's fields, no target, and the need with its
\* deadline None (<<>>).
actor_init(start, quanta) ==
    [start |-> start, quanta |-> quanta, now |-> <<>>, dt |-> 0,
     tick |-> <<>>, result |-> FALSE, executed |-> <<>>,
     target |-> 0, deadline |-> <<>>]

\* acquire_needs, for the one need: a deadline that is None or has arrived
\* is moved on by a cycle, and an arrived one adds the amount to the target.
rescheduled(g) ==
    IF g.deadline # <<>> /\ g.now[1] < g.deadline[1] THEN g
    ELSE [g EXCEPT !.target = IF g.deadline # <<>> THEN @ + need.amount ELSE @,
                   !.deadline = <<(IF g.deadline = <<>> THEN g.now[1]
                                   ELSE g.deadline[1]) + need.cycle>>]

\* short = n.amount + wants - holds
short(g, holds) == need.amount + g.target - holds

\* exch.price( security ): the best limit bid, the best limit ask and the
\* last trade; and max( 0 if p is None else p.price for p in price_tuple ).
market_price ==
    LET bids == SelectSeq(buying, LAMBDA order : ~non_value(order.price))
        asks == SelectSeq(selling, LAMBDA order : ~non_value(order.price))
        found == {IF bids = <<>> THEN 0 ELSE bids[Len(bids)].price,
                  IF asks = <<>> THEN 0 ELSE asks[1].price,
                  IF last = <<>> THEN 0 ELSE last[1].price}
    IN  CHOOSE price \in found : \A other \in found : other <= price

\* offer = factor * price, with factor = scale( proportion, (0,1), (0.90,1.05) )
\* and proportion = 1 - ( deadline - now ) / cycle: in whole ticks.
offer(g, price) ==
    LET passed == need.cycle - (g.deadline[1] - g.now[1])
    IN  (price * (90 * need.cycle + 15 * passed)) \div (100 * need.cycle)

ActorsInit ==
    /\ reserves = <<>>
    /\ buying = <<>>
    /\ selling = <<trade_t(supply_price, ReserveStart, -supply_available, "I")>>
    /\ last = <<>>
    /\ transaction = 0
    /\ agents = [a \in {"I"} \cup {EngineAgents[i] : i \in 1..Len(EngineAgents)}
                    |-> agent_init]
    /\ pc = "idle" /\ now = 0 /\ trades = <<>> /\ matched = <<>>
    /\ volume_call = <<>>
    /\ gate \in [{EngineAgents[i] : i \in 1..Len(EngineAgents)} ->
                    {actor_init(start, quanta) :
                        start \in 0 .. 2, quanta \in ActorQuanta}]
    /\ \A a \in DOMAIN gate : gate[a].start < gate[a].quanta
    /\ world \in {world_init(k * need.cycle, <<>>, 1) : k \in Cycles}
    /\ markets = <<>>
    /\ eng = engine_init("market")
    /\ account = <<>> /\ began = <<>>

\* One pass of cycle's for with an actor: actor.run( exch, now ).  When the
\* agent's run is due: acquire_needs closes the actor's orders, or enters its
\* bid for what it is short of with update=True; then cover_balance calls
\* exch.open( self ), an attribute no market has, and the AttributeError
\* ends engine.run.
ActorRun ==
    /\ eng.phase = "agents" /\ ~agents_ran(eng)
    /\ LET agent == EngineAgents[eng.turn]
           g     == run(gate[agent], eng.now)
           n     == rescheduled(g)
           bid   == trade_t(offer(n, market_price), n.now[1],
                            short(n, agents[agent].assets), agent)
       IN  IF ~g.result
           THEN /\ gate' = [gate EXCEPT ![agent] = g]
                /\ eng' = [eng EXCEPT !.turn = @ + 1, !.calls = Append(@, agent)]
                /\ UNCHANGED <<buying, selling>>
           ELSE /\ gate' = [gate EXCEPT ![agent] = n]
                /\ eng' = [eng EXCEPT !.phase = "raised", !.calls = Append(@, agent)]
                /\ IF short(n, agents[agent].assets) <= 0
                   THEN /\ buying' = close(buying, agent)
                        /\ selling' = close(selling, agent)
                   ELSE /\ buying' = buying_entered(bid, TRUE)
                        /\ selling' = selling_entered(bid, TRUE)
    /\ UNCHANGED <<last, transaction, agents, pc, now, trades, matched, reserves,
                   volume_call, world, markets, account, began>>

\* execute has nothing to yield on this market: a bid is entered only by an
\* actor's run, which ends the run of the engine.
NextActors ==
    \/ EngineNext
    \/ ActorRun
    \/ EngineExecuteAll
    \/ \E clock \in ClockTimes : IssuingExecuteAllReturn(clock)

SpecActors == ActorsInit /\ [][NextActors]_vars

\* ------------------------------------------- execute_all and its caller
\* What the caller notes when it calls execute_all: the open orders, the
\* transaction counter, and later the orders it enters between two yields.
caller_notes ==
    [orders |-> Len(buying) + Len(selling), transaction |-> transaction,
     entered |-> {}]

\* market.execute_all( now ) is called; the caller has taken its notes.
CallExecuteAll(t) ==
    /\ pc = "idle"
    /\ pc' = "exec"
    /\ now' = t
    /\ trades' = <<>>
    /\ matched' = <<>>
    /\ began' = caller_notes
    /\ UNCHANGED <<buying, selling, last, transaction, agents, reserves,
                   volume_call, gate, world, markets, eng, account>>

\* execute is exhausted: the loop over its pairs ends.
ExecuteAllReturned ==
    /\ pc = "exec"
    /\ ~can_yield
    /\ pc' = "idle"
    /\ now' = 0
    /\ trades' = <<>>
    /\ matched' = <<>>
    /\ began' = <<>>
    /\ UNCHANGED <<buying, selling, last, transaction, agents, reserves,
                   volume_call, gate, world, markets, eng, account>>

NextCalled ==
    \/ \E order \in Orders, update \in BOOLEAN : Enter(order, update)
    \/ \E agent \in Agents : Close(agent)
    \/ \E t \in ExecTimes : CallExecuteAll(t)
    \/ ExecuteYield
    \/ ExecuteAllReturned

SpecCalled == Init /\ [][NextCalled]_vars

\* ------------------------------------ the books changed between two yields
\* market.execute is a generator: after a yield its consumer runs, and may
\* call market.enter before it asks for the next pair.
EnterBetweenYields(order, update) ==
    /\ pc = "exec"
    /\ trades # <<>>
    /\ Len(buying) + Len(selling) + transaction < MaxOrders
    /\ Cardinality(began.entered) < MaxEntered
    /\ IF enter_raises(order, update)
       THEN UNCHANGED <<buying, selling, began>>
       ELSE /\ buying' = buying_entered(order, update)
            /\ selling' = selling_entered(order, update)
            /\ began' = [began EXCEPT !.entered = @ \cup {order}]
    /\ UNCHANGED <<last, transaction, agents, pc, now, trades, matched, reserves,
                   volume_call, gate, world, markets, eng, account>>

\* ... or market.close
CloseBetweenYields(agent) ==
    /\ pc = "exec"
    /\ trades # <<>>
    /\ buying' = close(buying, agent)
    /\ selling' = close(selling, agent)
    /\ UNCHANGED <<last, transaction, agents, pc, now, trades, matched, reserves,
                   volume_call, gate, world, markets, eng, account, began>>

\* The orders entered between two yields: of one unit, at the later time.
BetweenOrders == {order \in Orders : order.time = 2 /\ order.amount \in {-1, 1}}

NextBetween ==
    \/ \E order \in Orders, update \in BOOLEAN : Enter(order, update)
    \/ \E agent \in Agents : Close(agent)
    \/ \E t \in ExecTimes : CallExecuteAll(t)
    \/ ExecuteYield
    \/ \E order \in BetweenOrders, update \in BOOLEAN : EnterBetweenYields(order, update)
    \/ \E agent \in Agents : CloseBetweenYields(agent)
    \/ ExecuteAllReturned

SpecBetween == Init /\ [][NextBetween]_vars

\* --------------------------------------------------- actor.raise_capital
\* The securities in the actor's assets, in the dict's order.
Held == <<"Wheat", Name>>

HeldAmounts == {1, 2, 3}         \* assets[sec]
Targets == {0, 2}                \* target.get( sec, 0 )
BidPrices == {0, 1, 2}           \* the limit bid open for a security; 0: none
CapitalValues == {1, 5}          \* the value to raise
Excludes == {{}, {"Wheat"}}      \* the securities the actor is buying

\* a // b of Python: the floor of the quotient, for a divisor of either sign.
floor_div(a, b) == IF b > 0 THEN a \div b ELSE (-a) \div (-b)

\* exch.price( sec ) and max( 0 if p is None else p.price for p in price_tuple ):
\* the best limit bid and the best limit ask of the security's market; its
\* last is None, no trade has executed.
exchange_price(mkts, sec) ==
    IF sec \notin DOMAIN mkts THEN 0
    ELSE LET bids == SelectSeq(mkts[sec].buying, LAMBDA order : ~non_value(order.price))
             asks == SelectSeq(mkts[sec].selling, LAMBDA order : ~non_value(order.price))
             found == {0, IF bids = <<>> THEN 0 ELSE bids[Len(bids)].price,
                          IF asks = <<>> THEN 0 ELSE asks[1].price}
         IN  CHOOSE price \in found : \A other \in found : other <= price

\* actor.check_holdings( exch, exclude ): the <<sec, excess>> items of the
\* dict it returns, in the order of the assets; no item for an excluded
\* security or for one without a price.
RECURSIVE check_holdings(_, _, _, _)
check_holdings(a, mkts, exclude, held) ==
    IF held = <<>> THEN <<>>
    ELSE LET sec   == Head(held)
             price == exchange_price(mkts, sec)
             rest  == check_holdings(a, mkts, exclude, Tail(held))
         IN  IF sec \in exclude \/ price = 0 THEN rest
             ELSE <<(<<sec, price * (a.assets[sec] - a.target[sec])>>)>> \o rest

\* sorted( excess.items(), key=lambda sv: -sv[1] ): the greatest value first,
\* equal values in the order of the dict.
RECURSIVE by_value(_)
by_value(items) ==
    IF items = <<>> THEN <<>>
    ELSE LET i == CHOOSE i \in 1..Len(items) :
                     /\ \A j \in 1..Len(items) : items[j][2] <= items[i][2]
                     /\ \A j \in 1..(i - 1) : items[j][2] < items[i][2]
         IN  <<items[i]>> \o by_value(SubSeq(items, 1, i - 1) \o SubSeq(items, i + 1, Len(items)))

\* amount = min( value // excess[sec] + 1, overage )
amount_to_sell(value, excess, overage) == Min(floor_div(value, excess) + 1, overage)

\* The for loop of raise_capital over the sorted items: the orders it enters,
\* and whether it raised (value // excess[sec] with an excess of 0).
RECURSIVE capital_orders(_, _, _)
capital_orders(a, items, value) ==
    IF items = <<>> THEN [entered |-> <<>>, raised |-> FALSE]
    ELSE LET sec      == items[1][1]
             excess   == items[1][2]
             overage  == a.assets[sec] - a.target[sec]
             amount   == amount_to_sell(value, excess, overage)
             estimate == (amount * excess) \div overage
             order    == security_trade_t(sec, NoPrice, exchange_currency, a.now,
                                          -amount, a.identity)
             rest     == IF value - estimate <= 0
                         THEN [entered |-> <<>>, raised |-> FALSE]
                         ELSE capital_orders(a, Tail(items), value - estimate)
         IN  IF excess = 0 THEN [entered |-> <<>>, raised |-> TRUE]
             ELSE [entered |-> <<order>> \o rest.entered, raised |-> rest.raised]

\* actor.raise_capital( value, exch, exclude )
raise_capital(a, mkts, value, exclude) ==
    capital_orders(a, by_value(check_holdings(a, mkts, exclude, Held)), value)

\* exch.enter( order, update=True ) for each of the orders, in turn.
RECURSIVE entered_all(_, _)
entered_all(mkts, orders) ==
    IF orders = <<>> THEN mkts
    ELSE entered_all(exchange_enter(mkts, Head(orders), TRUE), Tail(orders))

\* The exchange with the bid of B open for each security that has one.
RECURSIVE bids_open(_, _)
bids_open(prices, held) ==
    IF held = <<>> THEN <<>>
    ELSE LET mkts == bids_open(prices, Tail(held))
             sec  == Head(held)
         IN  IF prices[sec] = 0 THEN with_market(mkts, sec, exchange_currency)
             ELSE exchange_buy(mkts, sec, "B", 1, prices[sec], 1, FALSE)

HeldSet == {Held[i] : i \in 1..Len(Held)}

\* The actor A with assets and targets, on an exchange with the bids of B;
\* capital: the call of raise_capital made on it, <<>> for none.
CapitalInit ==
    /\ buying = <<>> /\ selling = <<>> /\ last = <<>> /\ transaction = 0
    /\ agents = <<>> /\ pc = "idle" /\ now = 0 /\ trades = <<>>
    /\ matched = <<>> /\ reserves = <<>> /\ volume_call = <<>>
    /\ world = <<>> /\ eng = <<>> /\ account = <<>> /\ began = <<>>
    /\ \E assets \in [HeldSet -> HeldAmounts], target \in [HeldSet -> Targets] :
          gate = [identity |-> "A", now |-> 1, assets |-> assets,
                  target |-> target, capital |-> <<>>]
    /\ \E prices \in [HeldSet -> BidPrices] : markets = bids_open(prices, Held)

RaiseCapital(value, exclude) ==
    /\ gate.capital = <<>>
    /\ LET result == raise_capital(gate, markets, value, exclude)
       IN  /\ gate' = [gate EXCEPT !.capital =
                          <<[value |-> value, exclude |-> exclude,
                             entered |-> result.entered, raised |-> result.raised]>>]
           /\ markets' = entered_all(markets, result.entered)
    /\ UNCHANGED <<buying, selling, last, transaction, agents, pc, now, trades,
                   matched, reserves, volume_call, world, eng, account, began>>

NextCapital ==
    \E value \in CapitalValues, exclude \in Excludes : RaiseCapital(value, exclude)

SpecCapital == CapitalInit /\ [][NextCapital]_vars

\* ------------------------------------------------------- ReserveAccount
\* The arguments of ReserveAccount( currency_pair, ... ): prices in
\* hundredths of the start price (products rounded down to a whole unit),
\* supply_factor * 1000000 in whole units of Fuel.
BookLens == {2}                  \* orderbook_len
TrancheVolumes == {2}            \* supply_factor * 1000000
StartPrices == {100}             \* start_price
ReservePrices == {50}            \* reserve_price
Volumes == {1, 2, 3, 5, 9}       \* the vol issue and retire are called with

\* self.current_price * (1 + ii/100)
tranche_price(current_price, ii) == (current_price * (100 + ii)) \div 100

\* deque.appendleft( x ) with maxlen: a full deque drops its right end.
appendleft(q, x, maxlen) ==
    <<x>> \o (IF Len(q) >= maxlen THEN SubSeq(q, 1, maxlen - 1) ELSE q)

\* deque.append( x ) with maxlen: a full deque drops its left end.
append(q, x, maxlen) ==
    (IF Len(q) >= maxlen THEN SubSeq(q, Len(q) - maxlen + 2, Len(q)) ELSE q) \o <<x>>

\* sum( self.order_book_vol )
RECURSIVE sum(_)
sum(q) == IF q = <<>> THEN 0 ELSE Head(q) + sum(Tail(q))

\* sum( [tranche[1] for tranche in self.reserves] )
sum_reserve_vol(acc) == sum([i \in 1..Len(acc.reserves) |-> acc.reserves[i][2]])

\* for ii in range( from, orderbook_len ): appendleft a tranche at
\* current_price * (1 + ii/100), of the supply's volume.
RECURSIVE tranches_added(_, _)
tranches_added(acc, ii) ==
    IF ii >= acc.orderbook_len THEN acc
    ELSE tranches_added(
            [acc EXCEPT
                !.order_book_price = appendleft(@, tranche_price(acc.current_price, ii),
                                                acc.orderbook_len),
                !.order_book_vol = appendleft(@, acc.supply, acc.orderbook_len)],
            ii + 1)

\* ReserveAccount.refresh
refresh(acc) ==
    tranches_added([acc EXCEPT !.order_book_price = <<>>, !.order_book_vol = <<>>], 0)

\* ReserveAccount.__init__: deque is a name the module neither imports nor
\* defines, so the constructor raises NameError unless the importer has
\* bound it in the module (deque_bound); then the order book is refreshed
\* and the first reserve tranche is appended.  The left end of a deque is
\* place 1.
account_init(deque_bound, orderbook_len, supply, start_price, reserve_price) ==
    IF ~deque_bound
    THEN [constructed |-> FALSE, raised |-> TRUE, call |-> <<"__init__">>]
    ELSE [refresh([constructed |-> TRUE, raised |-> FALSE, call |-> <<"__init__">>,
                   orderbook_len |-> orderbook_len, supply |-> supply,
                   current_price |-> start_price,
                   order_book_price |-> <<>>, order_book_vol |-> <<>>,
                   reserves |-> <<>>])
          EXCEPT !.reserves = <<(<<reserve_price, supply>>)>>]

\* A slip: the tranche bought is credited with the volume asked for and not
\* with the volume bought.
credited_in_full(acc, price, buy_vol, vol) ==
    IF acc.reserves[1][1] = price
    THEN [acc EXCEPT !.reserves[1][2] = @ + vol]
    ELSE [acc EXCEPT !.reserves = <<(<<price, vol>>)>> \o @]

\* issue: the reserves after buy_vol was bought at price.
credited(acc, price, buy_vol, vol) ==
    IF acc.reserves[1][1] = price
    THEN [acc EXCEPT !.reserves[1][2] = @ + buy_vol]
    ELSE [acc EXCEPT !.reserves = <<(<<price, buy_vol>>)>> \o @]

\* The while loop of issue.  self.reserves[0] of an empty deque raises
\* IndexError, after the order book was updated.
RECURSIVE issue_while(_, _)
issue_while(acc, vol) ==
    IF vol <= 0 THEN acc
    ELSE LET n           == Len(acc.order_book_vol)
             quote_price == acc.order_book_price[n]
             quote_vol   == acc.order_book_vol[n]
             buy_vol     == Min(quote_vol, vol)
             remainder   == quote_vol - buy_vol
             bought      ==
                 [acc EXCEPT
                     !.current_price = quote_price,
                     !.order_book_vol = IF remainder = 0 THEN SubSeq(@, 1, n - 1)
                                        ELSE [@ EXCEPT ![n] = remainder],
                     !.order_book_price = IF remainder = 0 THEN SubSeq(@, 1, n - 1)
                                          ELSE @]
         IN  IF bought.reserves = <<>> THEN [bought EXCEPT !.raised = TRUE]
             ELSE issue_while(credited(bought, quote_price, buy_vol, vol),
                              vol - buy_vol)

\* ReserveAccount.issue( volume )
issue(acc, vol) ==
    IF vol > sum(acc.order_book_vol) THEN acc
    ELSE LET bought == issue_while(acc, vol)
         IN  IF bought.raised THEN bought
             ELSE tranches_added(bought, Len(bought.order_book_vol))

\* A slip: the oldest tranche is retired first.
quote_sell_oldest(acc) == acc.reserves[Len(acc.reserves)]

\* quote( 'sell' ): the tranche at the left end of the reserves
quote_sell(acc) == acc.reserves[1]

\* The while loop of retire.
RECURSIVE retire_while(_, _)
retire_while(acc, vol) ==
    IF vol <= 0 THEN acc
    ELSE LET quote_price == quote_sell(acc)[1]
             quote_vol   == quote_sell(acc)[2]
             sell_vol    == Min(quote_vol, vol)
             remainder   == quote_vol - sell_vol
             n           == Len(acc.order_book_price)
             same        == acc.order_book_price[n] = quote_price
             sold        ==
                 [acc EXCEPT
                     !.current_price = quote_price,
                     !.reserves = IF remainder = 0 THEN Tail(@)
                                  ELSE [@ EXCEPT ![1] = <<quote_price, remainder>>],
                     !.order_book_vol = IF same THEN [@ EXCEPT ![n] = @ + sell_vol]
                                        ELSE append(@, sell_vol, acc.orderbook_len),
                     !.order_book_price = IF same THEN @
                                          ELSE append(@, quote_price, acc.orderbook_len)]
         IN  retire_while(sold, vol - sell_vol)

\* A slip: a volume above the reserves retires all of them.
retire_all(acc, vol) ==
    IF vol > sum_reserve_vol(acc) THEN retire_while(acc, sum_reserve_vol(acc))
    ELSE retire_while(acc, vol)

\* ReserveAccount.retire( volume )
retire(acc, vol) ==
    IF vol > sum_reserve_vol(acc) THEN acc
    ELSE retire_while(acc, vol)

\* No ReserveAccount yet.
AccountInit ==
    /\ buying = <<>> /\ selling = <<>> /\ last = <<>> /\ transaction = 0
    /\ agents = <<>> /\ pc = "idle" /\ now = 0 /\ trades = <<>>
    /\ matched = <<>> /\ reserves = <<>> /\ volume_call = <<>>
    /\ gate = <<>> /\ world = <<>> /\ markets = <<>> /\ eng = <<>>
    /\ account = <<>> /\ began = <<>>

account_only ==
    UNCHANGED <<buying, selling, last, transaction, agents, pc, now, trades,
                matched, reserves, volume_call, gate, world, markets, eng, began>>

\* ReserveAccount( currency_pair, supply_factor, start_price, reserve_price,
\*                 orderbook_len=orderbook_len )
Construct(deque_bound) ==
    /\ account = <<>>
    /\ \E orderbook_len \in BookLens, supply \in TrancheVolumes,
          start_price \in StartPrices, reserve_price \in ReservePrices :
          account' = account_init(deque_bound, orderbook_len, supply,
                                  start_price, reserve_price)
    /\ account_only

\* account.issue( volume ), while the reserves hold less than MaxReserve.
Issue(vol) ==
    /\ account # <<>> /\ ~account.raised
    /\ sum_reserve_vol(account) < MaxReserve
    /\ account' = [issue(account, vol) EXCEPT !.call = <<"issue", vol>>]
    /\ account_only

\* account.retire( volume )
Retire(vol) ==
    /\ account # <<>> /\ ~account.raised
    /\ account' = [retire(account, vol) EXCEPT !.call = <<"retire", vol>>]
    /\ account_only

NextAccount ==
    \/ \E deque_bound \in BOOLEAN : Construct(deque_bound)
    \/ \E vol \in Volumes : Issue(vol)
    \/ \E vol \in Volumes : Retire(vol)

SpecAccount == AccountInit /\ [][NextAccount]_vars

\* ------------------------------------------------------------------ claims
is_limit(order) == ~non_value(order.price)

is_market(order) == non_value(order.price)

\* The pair <<buy, sell>> yielded last.
LastPair == trades[Len(trades)]

\* C1: whenever execute_all records a trade pair, both records carry the
\* same price and the same absolute amount, and between two distinct agents
\* the buyer's assets grow by the amount and the seller's shrink by it, the
\* buyer's balance shrinks by amount * price and the seller's grows by it.
C1_Conservation ==
    [][ (pc = "exec" /\ Len(trades') = Len(trades) + 1) =>
        LET buy  == trades'[Len(trades')][1]
            sell == trades'[Len(trades')][2]
        IN  /\ buy.price = sell.price
            /\ buy.amount > 0
            /\ sell.amount = -buy.amount
            /\ buy.agent # sell.agent =>
                 /\ agents'[buy.agent].assets = agents[buy.agent].assets + buy.amount
                 /\ agents'[sell.agent].assets = agents[sell.agent].assets - buy.amount
                 /\ agents'[buy.agent].balances =
                       agents[buy.agent].balances - buy.amount * buy.price
                 /\ agents'[sell.agent].balances =
                       agents[sell.agent].balances + buy.amount * buy.price
      ]_vars

\* A first trade between two distinct agents has been recorded.
C1_Witness ==
    /\ pc = "exec"
    /\ Len(trades) = 1
    /\ trades[1][1].agent # trades[1][2].agent
    /\ agents[trades[1][1].agent].assets = trades[1][1].amount
    /\ agents[trades[1][2].agent].balances = trades[1][1].amount * trades[1][1].price

\* x may stand before y in the buy book: ascending limit price with the
\* market price last, then ascending time.
BuyOrdered(x, y) ==
    IF is_market(x) /\ is_market(y) THEN x.time <= y.time
    ELSE IF is_market(x) THEN FALSE
    ELSE IF is_market(y) THEN TRUE
    ELSE x.price < y.price \/ (x.price = y.price /\ x.time <= y.time)

\* x may stand before y in the sell book: the market price first, then
\* ascending limit price, then ascending -time.
SellOrdered(x, y) ==
    IF is_market(x) /\ is_market(y) THEN -x.time <= -y.time
    ELSE IF is_market(x) THEN TRUE
    ELSE IF is_market(y) THEN FALSE
    ELSE x.price < y.price \/ (x.price = y.price /\ -x.time <= -y.time)

\* C2: in every reachable state the buy book is non-decreasing under
\* (price with the market price last, time) and the sell book under (price
\* with the market price first, -time).
C2_BooksSorted ==
    /\ \A i, j \in 1..Len(buying) : i < j => BuyOrdered(buying[i], buying[j])
    /\ \A i, j \in 1..Len(selling) : i < j => SellOrdered(selling[i], selling[j])

\* A partial fill left a market-price buy in the book beside a limit buy.
C2_Witness ==
    /\ pc = "exec"
    /\ trades # <<>>
    /\ matched[1].amount > LastPair[1].amount
    /\ Len(buying) = 2
    /\ is_limit(buying[1])
    /\ is_market(buying[2])

\* C3: of two limit buys at the same price and different times, the one
\* with the smaller time is in the first trade pair execute yields: when
\* the first pair consumed a limit buy, no buy at its price with a smaller
\* time is still open.
C3_BuyTimePriority ==
    (pc = "exec" /\ Len(trades) = 1) =>
        \A i \in 1..Len(buying) :
            ( /\ is_limit(matched[1])
              /\ is_limit(buying[i])
              /\ buying[i].price = matched[1].price
              /\ buying[i].time # matched[1].time )
            => matched[1].time < buying[i].time

\* C4: of two limit sells at the same price and different times, the one
\* with the smaller time is matched first: when a pair consumed a limit
\* sell, no sell at its price with a smaller time is still open.
C4_SellTimePriority ==
    (pc = "exec" /\ matched # <<>>) =>
        \A i \in 1..Len(selling) :
            ( /\ is_limit(matched[2])
              /\ is_limit(selling[i])
              /\ selling[i].price = matched[2].price
              /\ selling[i].time # matched[2].time )
            => matched[2].time < selling[i].time

Max(x, y) == IF x >= y THEN x ELSE y

\* Every order of the example has been entered: it is open or has traded.
ExampleAllEntered ==
    \A order \in ExampleOrders :
        \/ agents[order.agent].trades # <<>>
        \/ \E open \in OpenOrders : open.agent = order.agent

\* The pair execute yields for a trade of amount at price.
pair_t(price, amount, buyer, seller) ==
    <<trade_t(price, now, amount, buyer), trade_t(price, now, -amount, seller)>>

\* C5: with the five orders of the example entered on the empty market,
\* execute yields 200 @ 4.00 between C and B, 250 @ 4.00 between A and B and
\* 50 @ 4.01 between D and B, in this order, and leaves the sells of D, 150
\* @ 4.01, and E, 100 @ 4.10, and no buy.
C5_WorkedExample ==
    (pc = "exec" /\ ~can_yield /\ ExampleAllEntered /\ transaction = Len(trades)) =>
        /\ trades = << pair_t(400, 200, "B", "C"),
                       pair_t(400, 250, "B", "A"),
                       pair_t(401,  50, "B", "D") >>
        /\ buying = <<>>
        /\ selling = << trade_t(401, 3, -150, "D"), trade_t(410, 5, -100, "E") >>

\* What execute does yield on the example: the same pairs and the same
\* remaining book, the first two pairs at B's bid of 4.05.
C5_Executed ==
    (pc = "exec" /\ ~can_yield /\ ExampleAllEntered /\ transaction = Len(trades)) =>
        /\ trades = << pair_t(405, 200, "B", "C"),
                       pair_t(405, 250, "B", "A"),
                       pair_t(401,  50, "B", "D") >>
        /\ buying = <<>>
        /\ selling = << trade_t(401, 3, -150, "D"), trade_t(410, 5, -100, "E") >>

SelfMatch(order) ==
    IF order.amount >= 0
    THEN \E i \in 1..Len(selling) :
            /\ selling[i].agent = order.agent
            /\ \/ is_market(selling[i])
               \/ is_market(order)
               \/ selling[i].price <= order.price
    ELSE \E i \in 1..Len(buying) :
            /\ buying[i].agent = order.agent
            /\ \/ is_market(buying[i])
               \/ is_market(order)
               \/ order.price <= buying[i].price

\* C9: in every book state, enter( order, update=False ) fails whenever the
\* opposite book holds an order of the same agent at a compatible price,
\* for buys and for sells, wherever that order stands in its book.
C9_SelfTradeCheck ==
    \A order \in Orders : SelfMatch(order) => enter_raises(order, FALSE)

\* C10: no trade pair execute yields has one agent as buyer and seller.
C10_NoSelfTrade ==
    \A i \in 1..Len(trades) : trades[i][1].agent # trades[i][2].agent

\* The number of open orders of an agent, over both books.
open_orders(agent) == Len(SelectSeq(buying \o selling, LAMBDA order : order.agent = agent))

\* C11: when every enter uses update=True, each agent has at most one open
\* order across the two books at any time.
C11_OneOpenOrder == \A agent \in DOMAIN agents : open_orders(agent) <= 1

\* An agent that has traded holds one open order, the other agent's order
\* open beside it: it re-entered, or its order was filled in part.
C11_Witness ==
    /\ pc = "idle"
    /\ transaction > 0
    /\ \E agent \in DOMAIN agents :
        /\ agents[agent].trades # <<>>
        /\ open_orders(agent) = 1
    /\ Len(buying) + Len(selling) = 2

\* C14: last is nothing until the first trade, and after every yielded pair
\* it is the buy record of that pair until the next one; the steps outside an
\* execution (enter and close) change neither last nor the transaction
\* counter.
C14_LastIsLatestBuy ==
    /\ last = <<>>
    /\ [][ /\ Len(trades') > Len(trades) => last' = <<trades'[Len(trades')][1]>>
           /\ Len(trades') <= Len(trades) => last' = last
           /\ (pc = "idle" /\ pc' = "idle") => (last' = last /\ transaction' = transaction)
         ]_vars

\* A second pair has been yielded with another buy record, and last is the
\* buy record of the second.
C14_Witness ==
    /\ pc = "exec"
    /\ Len(trades) = 2
    /\ trades[1][1] # trades[2][1]
    /\ last = <<trades[2][1]>>

\* sum( reserves.values() )
RECURSIVE reserves_sum(_)
reserves_sum(d) == IF d = <<>> THEN 0 ELSE d[1][2] + reserves_sum(Tail(d))

\* The step yields a pair in which a reserve buys from an outside agent.
ReserveBuys ==
    /\ Len(trades') > Len(trades)
    /\ is_reserve(trades'[Len(trades')][1].agent)
    /\ ~is_reserve(trades'[Len(trades')][2].agent)

\* C15: for each trade of a reserve's execute_all in which the reserve buys
\* from an outside agent, the sum of the reserves' quantities decreases by
\* exactly the traded amount, and no tranche is left with quantity zero.
C15_ReserveConsumption ==
    [][ReserveBuys =>
        /\ reserves_sum(reserves') = reserves_sum(reserves) - trades'[Len(trades')][1].amount
        /\ \A i \in 1..Len(reserves') : reserves'[i][2] # 0
      ]_vars

\* The reserve has bought a whole tranche from the outside agent: the tranche
\* is gone from the reserves, another is still there.
C15_Witness ==
    /\ pc = "exec"
    /\ trades # <<>>
    /\ is_reserve(LastPair[1].agent)
    /\ ~is_reserve(LastPair[2].agent)
    /\ is_reserve(matched[1].agent)
    /\ LastPair[1].price = matched[1].price
    /\ ~has_key(reserves, LastPair[1].price)
    /\ reserves # <<>>

\* C16: in every reachable state of a reserve, every entry of reserves has a
\* strictly positive quantity.
C16_PositiveTranches == \A i \in 1..Len(reserves) : reserves[i][2] > 0

\* The reserve's own open orders in a book.
own_orders(book) == SelectSeq(book, LAMBDA order : is_reserve(order.agent))

\* C17: between executions (after execute_all has returned, and after run)
\* the reserve's own open orders are exactly one buy order per entry of
\* reserves, with that entry's price and quantity, and it has no sell order.
C17_LadderIsReserves ==
    pc = "idle" =>
        /\ own_orders(selling) = <<>>
        /\ Len(own_orders(buying)) = Len(reserves)
        /\ \A i \in 1..Len(reserves) :
            \E j \in 1..Len(own_orders(buying)) :
                /\ own_orders(buying)[j].price = reserves[i][1]
                /\ own_orders(buying)[j].amount = reserves[i][2]

\* execute_all returns in this step.
Returns == pc = "exec" /\ pc' # "exec"

\* C18: on a reserve created with one tranche the bid is at the tranche's
\* price and last is nothing; when execute_all returns after A sold the
\* tranche's quantity at its price, exactly one trade has executed, reserves
\* is empty and there is no bid; when execute_all returns after A then
\* entered a buy, the bid is at the buy's price and reserves is the one
\* tranche of that price and quantity.
C18_RetireAndReissue ==
    /\ Len(buying) = 1 /\ Len(reserves) = 1 /\ BuyAt(-1).price = reserves[1][1] /\ last = <<>>
    /\ [][ /\ (Returns /\ transaction = 1 /\ outside_orders = <<>>) =>
                /\ Len(agents["A"].trades) = 1
                /\ reserves' = <<>>
                /\ buying' = <<>>
           /\ (Returns /\ Len(outside_orders) = 1 /\ outside_orders[1].amount > 0) =>
                /\ buying' # <<>>
                /\ buying'[Len(buying')].price = outside_orders[1].price
                /\ reserves' = <<<<outside_orders[1].price, outside_orders[1].amount>>>>
         ]_vars

\* C12: every pair execute yields has a seller who sells to the buyer and a
\* buyer who buys from the seller; the reserve that accepts only hosts never
\* buys from an agent who is no host.
C12_CompatiblePairs ==
    \A i \in 1..Len(trades) :
        /\ sells_to(trades[i][2].agent, trades[i][1].agent)
        /\ buys_from(trades[i][1].agent, trades[i][2].agent)
        /\ trades[i][1].agent \in HostsOnly => trades[i][2].agent \in Hosts

\* The reserve for hosts has bought from the host while a sell order of the
\* actor who is no host stands first in the sell book, overlapping the
\* reserve's bid.
C12_Witness ==
    /\ pc = "exec"
    /\ trades # <<>>
    /\ LastPair[1].agent \in HostsOnly
    /\ LastPair[2].agent \in Hosts
    /\ selling # <<>>
    /\ selling[1].agent \notin Hosts
    /\ TupleLE(sell_book_key(selling[1]), sell_book_key(matched[2]))
    /\ (is_market(selling[1]) \/ selling[1].price <= matched[1].price)

\* C13: execute stops without a trade only if no buy order and sell order
\* anywhere in the two books are both mutually compatible and overlapping in
\* price; the pairs of two limit orders are those whose price can always be
\* resolved.
C13_SearchExhaustive ==
    (pc = "exec" /\ ~can_yield) =>
        ~ \E i \in 1..Len(buying), j \in 1..Len(selling) :
            /\ agents_compatible(buying[i].agent, selling[j].agent)
            /\ is_limit(buying[i])
            /\ is_limit(selling[j])
            /\ selling[j].price <= buying[i].price

bought(order) == IF order.amount > 0 THEN order.amount ELSE 0

sold(order) == IF order.amount < 0 THEN -order.amount ELSE 0

\* The quantities bought and sold, summed over the entries of log that are
\* in the set of indices.
RECURSIVE totals(_, _)
totals(log, indices) ==
    IF indices = {} THEN <<0, 0>>
    ELSE LET i == CHOOSE i \in indices : TRUE
             rest == totals(log, indices \ {i})
         IN  <<bought(log[i]) + rest[1], sold(log[i]) + rest[2]>>

\* The trades of the log with time in [now - period, now], of the security
\* when one is given, of all securities when none is; all times when no
\* period is given.
in_window(log, security, period, t) ==
    {i \in 1..Len(log) :
        /\ period # NoPeriod => (t - period <= log[i].time /\ log[i].time <= t)
        /\ security # NoSecurity => security_of(log[i]) = security}

\* C20: agent.volume( security, period, now ) returns the total bought and the
\* total sold quantity over the agent's recorded trades with time in
\* [now - period, now]: of all securities when no security is given, of the
\* given security's trades only when one is.
C20_Volume ==
    volume_call # <<>> =>
        LET log == agents["A"].trades
            window == in_window(log, volume_call.security, volume_call.period, volume_call.now)
        IN  volume_call.result = totals(log, window)

\* The quantity the reserve offers for sale.
RECURSIVE offered(_)
offered(book) ==
    IF book = <<>> THEN 0
    ELSE (IF is_reserve(book[1].agent) THEN -book[1].amount ELSE 0) + offered(Tail(book))

\* The reserve's sell volume less its buy volume, over its recorded trades
\* (all of them are within the trailing supply_period).
net_sold(log) == totals(log, 1..Len(log))[2] - totals(log, 1..Len(log))[1]

\* C19: after each run the issuing reserve offers for sale supply_available
\* less its net sold volume over the trailing supply_period, and nothing when
\* that remainder is not positive.
C19_IssuanceCap ==
    pc = "idle" =>
        LET remainder == supply_available - net_sold(agents[self].trades)
        IN  offered(selling) = IF remainder > 0 THEN remainder ELSE 0

\* The time of the call of run that returned True before the latest call:
\* <<>> when there was none.
previous(g) ==
    LET before == IF g.result THEN SubSeq(g.executed, 1, Len(g.executed) - 1)
                  ELSE g.executed
    IN  IF before = <<>> THEN <<>> ELSE <<before[Len(before)]>>

\* C21: over non-decreasing tick times, run returns False while now < start,
\* True on the first call with now >= start whatever the quanta, and after
\* that True exactly when now minus the time of the previous True call is at
\* least quanta; two consecutive executions are at least quanta apart.
C21_RunGate ==
    \A agent \in DOMAIN gate :
        LET g == gate[agent]
        IN  g.tick # <<>> =>
              /\ g.result <=> /\ g.tick[1] >= g.start
                              /\ \/ previous(g) = <<>>
                                 \/ g.tick[1] - previous(g)[1] >= g.quanta
              /\ Len(g.executed) > 1 =>
                     g.executed[Len(g.executed)] - g.executed[1] >= g.quanta

C21_Witness ==
    \E agent \in DOMAIN gate :
        /\ gate[agent].result
        /\ Len(gate[agent].executed) > 1
        /\ gate[agent].quanta > 0

\* C22: whenever run returns True, dt is now minus start on the first
\* execution and now minus the previous execution's time on a later one.
C22_Dt ==
    \A agent \in DOMAIN gate :
        LET g == gate[agent]
        IN  g.result =>
                g.dt = g.tick[1] - (IF previous(g) = <<>> THEN g.start
                                    ELSE previous(g)[1])

\* C23: exchange.sell( security, agent, amount, price ) with amount > 0 does
\* what market.sell does on the security's market, created first if it does
\* not exist: it leaves an open sell order of that quantity, at a negative
\* amount in the selling book.
C23_ExchangeSell ==
    [][\A security \in Securities, agent \in ExchangeAgents,
          price \in ExchangePrices, t \in ExchangeTimes, update \in BOOLEAN :
          ExchangeSell(security, agent, 1, price, t, update) =>
              LET with == with_market(markets, security, exchange_currency)
              IN  markets' = [with EXCEPT ![security] =
                                 market_sell(@, agent, 1, price, t, update)]]_vars

\* C24: every order in a market's buying and selling books has the market's
\* name as its security and the market's currency as its currency, whatever
\* orders are passed to market.enter or exchange.enter.
C24_BooksOfTheMarket ==
    \A security \in DOMAIN markets :
        LET m == markets[security]
        IN  \A book \in {m.buying, m.selling} : \A i \in 1..Len(book) :
                book[i].security = m.name /\ book[i].currency = m.currency

\* ceil( duration / quanta ) for quanta > 0, and 0 for no duration.
ticks(duration, quanta) ==
    IF duration <= 0 THEN 0 ELSE (duration + quanta - 1) \div quanta

\* C27: periods() yields exactly the times start + k * quanta, k = 0, 1, ...,
\* that are less than start + duration, in increasing order, and then
\* completes: after ceil( duration / quanta ) ticks.
C27_Periods ==
    LET count == Len(world.yielded)
    IN  /\ \A k \in 1..count :
              /\ world.yielded[k] = world.start + (k - 1) * world.quanta
              /\ world.yielded[k] < world.start + world.duration
        /\ count <= ticks(world.duration, world.quanta)
        /\ world.at = "completed" => count = ticks(world.duration, world.quanta)
        /\ world.at # "completed" => ENABLED NextWorld

C27_Witness ==
    /\ world.at = "completed"
    /\ Len(world.yielded) > 1
    /\ world.start > 0
    /\ world.duration % world.quanta # 0

\* C28: assigning a new value to a realtime world's scale completes, leaves
\* now as it is, and makes scale read back as the new value (so that
\* rescaling and rescaling back leaves now the same).
C28_Rescale ==
    [][\A value \in Scales :
          value # world.scale /\ ScaleSet(value) =>
              /\ ~world'.raised
              /\ world'.scale = value
              /\ world'.now = world.now]_vars

\* The calls of one whole cycle: every agent's run in the order of the list,
\* then execute_all.
cycle_calls == EngineAgents \o <<"execute_all">>

\* C25: within every tick each agent's run is called exactly once, in the
\* order of the agent list; no trade is matched before all of them have
\* returned; matching then runs exactly once, before the next tick's time is
\* taken from the world.
C25_TickOrder ==
    [][ /\ eng'.calls = SubSeq(cycle_calls, 1, Len(eng'.calls))
        /\ transaction' # transaction => eng.calls = cycle_calls
        /\ (Len(world'.yielded) > Len(world.yielded) /\ world.yielded # <<>>) =>
              eng.calls = cycle_calls /\ pc = "idle"
      ]_vars

C25_Witness ==
    /\ Len(world.yielded) > 1
    /\ eng.phase = "match"
    /\ pc = "exec"
    /\ trades # <<>>

\* The assets and the balance a trade log amounts to.
RECURSIVE ledger(_)
ledger(log) ==
    IF log = <<>> THEN <<0, 0>>
    ELSE LET order == log[Len(log)]
             rest  == ledger(SubSeq(log, 1, Len(log) - 1))
         IN  <<rest[1] + order.amount, rest[2] - order.amount * order.price>>

\* C26: every engine cycle comes to its end, on a market and on an exchange
\* object, and at its end each trade pair matched in the cycle is in the
\* trade log of its buyer and of its seller, whose assets and balances are
\* those of their logs.
C26_CycleRecords ==
    /\ eng.phase # "raised"
    /\ (pc = "exec" /\ ~can_yield) =>
          /\ \A i \in 1..Len(trades) :
                /\ \E j \in 1..Len(agents[trades[i][1].agent].trades) :
                       agents[trades[i][1].agent].trades[j] = trades[i][1]
                /\ \E j \in 1..Len(agents[trades[i][2].agent].trades) :
                       agents[trades[i][2].agent].trades[j] = trades[i][2]
          /\ \A agent \in DOMAIN agents :
                ledger(agents[agent].trades) =
                    <<agents[agent].assets, agents[agent].balances>>

\* C29: a run is determined by its operations and their virtual times, not
\* by what the wall clock reads: when execute_all returns on a reserve, the
\* books it leaves are the same for every reading of the clock.
C29_Deterministic ==
    [][ (pc = "exec" /\ pc' # "exec") =>
            \A clock \in ClockTimes :
                LET b == reserve_run(reserves, self, clock)
                IN  buying' = b.buying /\ selling' = b.selling
      ]_vars

\* C30: an engine run over k need cycles on an issuing reserve comes to its
\* end, and at its end every actor holds k times the amount of its need.
C30_NeedsAcquired ==
    /\ eng.phase # "raised"
    /\ eng.phase = "done" =>
          \A agent \in DOMAIN gate :
              agents[agent].assets = (world.duration \div need.cycle) * need.amount

\* The walk of execute has stopped: execute_all is about to return.
execute_stopped == pc = "exec" /\ ~can_yield

\* C32: when execute_all returns on a market whose agents are all compatible
\* and whose last is set, no trade is possible: a book is empty, or the best
\* bid and the best ask are both priced and the lowest ask is strictly above
\* the highest bid.
C32_NoTradeLeft ==
    (execute_stopped /\ last # <<>>) =>
        \/ buying = <<>>
        \/ selling = <<>>
        \/ /\ is_limit(buying[Len(buying)])
           /\ is_limit(selling[1])
           /\ \A i \in 1..Len(buying), j \in 1..Len(selling) :
                  /\ is_limit(buying[i])
                  /\ is_limit(selling[j])
                  /\ selling[j].price > buying[i].price

C32_Witness ==
    /\ execute_stopped
    /\ last # <<>>
    /\ trades # <<>>
    /\ buying # <<>>
    /\ selling # <<>>

\* C33: a yield trades the smaller of the two quantities; an order filled
\* leaves its book, an order filled in part stays at its position with its
\* quantity reduced by the amount and its price, time and agent unchanged;
\* every other order stays as it was, and no order of quantity zero stays
\* in a book.
C33_PartialFill ==
    [][ (pc = "exec" /\ Len(trades') = Len(trades) + 1) =>
        LET i      == Len(buying) + bid_now + 1
            j      == ask_now + 1
            b      == buying[i]
            s      == selling[j]
            amount == trades'[Len(trades')][1].amount
        IN  /\ amount = (IF b.amount <= -s.amount THEN b.amount ELSE -s.amount)
            /\ trades'[Len(trades')][2].amount = -amount
            /\ IF b.amount = amount
               THEN /\ Len(buying') = Len(buying) - 1
                    /\ \A k \in 1..Len(buying') :
                           buying'[k] = buying[IF k < i THEN k ELSE k + 1]
               ELSE /\ Len(buying') = Len(buying)
                    /\ \A k \in 1..Len(buying) :
                           buying'[k] = IF k = i
                                        THEN trade_t(b.price, b.time, b.amount - amount, b.agent)
                                        ELSE buying[k]
            /\ IF -s.amount = amount
               THEN /\ Len(selling') = Len(selling) - 1
                    /\ \A k \in 1..Len(selling') :
                           selling'[k] = selling[IF k < j THEN k ELSE k + 1]
               ELSE /\ Len(selling') = Len(selling)
                    /\ \A k \in 1..Len(selling) :
                           selling'[k] = IF k = j
                                         THEN trade_t(s.price, s.time, s.amount + amount, s.agent)
                                         ELSE selling[k]
            /\ \A k \in 1..Len(buying') : buying'[k].amount > 0
            /\ \A k \in 1..Len(selling') : selling'[k].amount < 0 ]_vars

\* A yield has left one order filled in part in a book that holds another.
C33_Witness ==
    /\ pc = "exec"
    /\ trades # <<>>
    /\ matched # <<>>
    /\ matched[1].amount # -matched[2].amount
    /\ Len(buying) + Len(selling) >= 2

\* C34: execute stops at a compatible pair at the top of the books whose
\* prices overlap, without a trade, only when neither book holds a priced
\* order and last is unset.
C34_AbandonOnlyWithoutPrice ==
    (execute_stopped /\ trade_possible(-1, 0)
        /\ agents_compatible(BuyAt(-1).agent, SellAt(0).agent)) =>
        /\ last = <<>>
        /\ \A k \in 1..Len(buying) : is_market(buying[k])
        /\ \A k \in 1..Len(selling) : is_market(selling[k])

\* C39: the price of a trade is at most the limit of a priced buy order and
\* at least the limit of a priced sell order.
C39_LimitsRespected ==
    [][ (pc = "exec" /\ Len(trades') = Len(trades) + 1) =>
        LET b     == BuyAt(bid_now)
            s     == SellAt(ask_now)
            price == trades'[Len(trades')][1].price
        IN  /\ trades'[Len(trades')][2].price = price
            /\ is_limit(b) => price <= b.price
            /\ is_limit(s) => price >= s.price ]_vars

\* A trade between two priced orders whose limits differ.
C39_Witness ==
    /\ pc = "exec"
    /\ trades # <<>>
    /\ matched # <<>>
    /\ is_limit(matched[1])
    /\ is_limit(matched[2])
    /\ matched[2].price < matched[1].price

\* C40: execute_all returns after at most len(buying) + len(selling) - 1
\* pairs, counted on the books it was called with: every pair takes at least
\* one order out of the books, and the run goes on or returns.  The
\* transaction counter has grown by exactly the number of pairs yielded.
C40_BoundedPairs ==
    pc = "exec" =>
        /\ Len(trades) <= Max(began.orders - 1, 0)
        /\ Len(buying) + Len(selling) + Len(trades) <= began.orders
        /\ transaction = began.transaction + Len(trades)
        /\ ENABLED ExecuteYield \/ ENABLED ExecuteAllReturned

\* The bound is met: three orders, two pairs.
C40_Witness ==
    /\ execute_stopped
    /\ began.orders >= 3
    /\ Len(trades) = began.orders - 1
    /\ began.transaction > 0 \/ Len(buying) + Len(selling) > 0

C36_FirstEnteredFirst ==
    [][ \A order \in Orders :
          (/\ pc = "idle"
           /\ ~enter_raises(order, FALSE)
           /\ buying' = buying_entered(order, FALSE)
           /\ selling' = selling_entered(order, FALSE)
           /\ Len(buying') + Len(selling') = Len(buying) + Len(selling) + 1) =>
              /\ \A i, k \in 1..Len(buying') :
                    (/\ order.amount > 0
                     /\ buying'[k] = order
                     /\ buying'[i] # order
                     /\ buying'[i].price = order.price
                     /\ buying'[i].time = order.time) => i > k
              /\ \A i, k \in 1..Len(selling') :
                    (/\ order.amount < 0
                     /\ selling'[k] = order
                     /\ selling'[i] # order
                     /\ selling'[i].price = order.price
                     /\ selling'[i].time = order.time) => i < k ]_vars

\* C37: every order raise_capital enters is a sell at the market price, of
\* a security that is not excluded, of at least 1 and at most
\* assets[sec] - target[sec] units; raise_capital enters no buy order and
\* does not raise, whatever the holdings, targets and prices.
C37_SellsExcessOnly ==
    gate.capital # <<>> =>
        LET call == gate.capital[1]
        IN  /\ ~call.raised
            /\ \A i \in 1..Len(call.entered) :
                  LET order == call.entered[i]
                  IN  /\ is_market(order)
                      /\ order.amount < 0
                      /\ order.security \notin call.exclude
                      /\ -order.amount >= 1
                      /\ -order.amount <= gate.assets[order.security]
                                            - gate.target[order.security]

\* The call account.<name>( vol ) has just been made on a constructed account.
called(name) ==
    /\ account # <<>>
    /\ account.constructed
    /\ account'.call[1] = name
    /\ account' # account

\* C31: retire( volume ) with a volume above the total of the reserves
\* returns and changes nothing: the reserves, the order book's prices and
\* volumes and current_price are as they were.
C31_RetireTooMuch ==
    [][ (called("retire") /\ account'.call[2] > sum_reserve_vol(account)) =>
            /\ ~account'.raised
            /\ account'.reserves = account.reserves
            /\ account'.order_book_price = account.order_book_price
            /\ account'.order_book_vol = account.order_book_vol
            /\ account'.current_price = account.current_price ]_vars

\* retire was called with more than the reserves hold, after issues.
C31_Witness ==
    /\ account # <<>>
    /\ account.constructed
    /\ account.call[1] = "retire"
    /\ account.call[2] > sum_reserve_vol(account)
    /\ Len(account.reserves) >= 2

\* C38: on every account that issue and retire calls lead to, issue( volume )
\* with 0 < volume <= the total volume of the order book returns and adds
\* exactly volume to the total of the reserves, and retire( volume ) with
\* 0 < volume <= the total of the reserves takes exactly volume from it, from
\* the tranches issued last: the reserves after it are the older tranches,
\* the newest of them reduced.
C38_IssueRetire ==
    [][ /\ (called("issue") /\ account'.call[2] > 0
              /\ account'.call[2] <= sum(account.order_book_vol)) =>
            /\ ~account'.raised
            /\ sum_reserve_vol(account') = sum_reserve_vol(account) + account'.call[2]
        /\ (called("retire") /\ account'.call[2] > 0
              /\ account'.call[2] <= sum_reserve_vol(account)) =>
            /\ ~account'.raised
            /\ sum_reserve_vol(account') = sum_reserve_vol(account) - account'.call[2]
            /\ \E k \in 0..Len(account.reserves) :
                  /\ Len(account'.reserves) = Len(account.reserves) - k
                  /\ \A i \in 1..Len(account'.reserves) :
                        /\ account'.reserves[i][1] = account.reserves[i + k][1]
                        /\ account'.reserves[i][2] <= account.reserves[i + k][2]
                        /\ i > 1 => account'.reserves[i] = account.reserves[i + k] ]_vars
====
